---- MODULE Spec2Model ----
(***************************************************************************)
(* Ledger-and-persistence core of blockchain/advanced_blockchain:          *)
(*   - DistributedStorage (src/storage/distributed_storage.py): a local    *)
(*     key-value store decorated with peer replication, per-key node       *)
(*     selection, health flags and three consistency levels;               *)
(*   - Blockchain (src/core/blockchain.py): the pending pool, mining and   *)
(*     block persistence behind the chain lock.                            *)
(* Spec      is the state machine of one DistributedStorage instance.      *)
(* SpecChain is the state machine of one Blockchain instance called from   *)
(*           several threads.                                              *)
(* SpecAudit is one Blockchain instance with a caller that mines, adjusts  *)
(*           the difficulty, reads the chain back and validates it.        *)
(***************************************************************************)
EXTENDS Integers, Sequences, FiniteSets, TLC

\* ------------------------------------------------------------------ bounds
\* Peer endpoints that exist in the deployment: 1..NumNodes.
NumNodes == 3
\* Keys written and read by the callers: 1..NumKeys.
NumKeys == 2
\* Byte strings stored as values: 1..NumValues.
NumValues == 2
\* Background replication threads (eventual consistency) alive at once.
MaxAsync == 1
\* Threads calling into one Blockchain: 1..NumThreads.
NumThreads == 2
\* Transactions the callers submit: 1..NumTx.
NumTx == 2
\* Blocks constructed by mine_pending_transactions calls.
MaxBlocks == 3
\* Transactions waiting in the pending pool at once.
MaxPending == 2
\* Mining difficulties in use: 1..MaxDifficulty.
MaxDifficulty == 4
MaxPoolSize == 3
MaxLeaves == 5
\* LevelDBStorage.get_latest_block_height scans with limit=1000; the limit
\* is scaled to the chain lengths of the model.
ScanLimit == 2

Nodes == 1..NumNodes
Keys == 1..NumKeys
Values == 1..NumValues
\* Python's None: the result of a get that found nothing.
None == 0
\* The local node in an operation's log (peers are numbered from 1).
Local == 0

ConsistencyLevels == {"strong", "quorum", "eventual"}

\* What one contact with a peer (probe, then request) can end in:
\*   probe_fail  the liveness probe raised or answered a status other than 200
\*   ack         probe 200, the request answered 200
\*   http_error  probe 200, the request answered a status other than 200
\*   timeout     probe 200, the request raised (unreachable, timed out)
WriteOutcomes == {"probe_fail", "ack", "http_error", "timeout"}
\* A read request answers 200 with the value v ("hit", v), or without one.
ReadOutcomes == {[kind |-> "probe_fail", value |-> None],
                 [kind |-> "miss", value |-> None],
                 [kind |-> "timeout", value |-> None]}
                \cup {[kind |-> "hit", value |-> v] : v \in Values}

\* ------------------------------------------------------------------- state
VARIABLES
    \* DistributedStorage
    local_storage,        \* key -> value or None: the wrapped local engine
    peer_nodes,           \* the list of configured peer endpoints
    node_health,          \* dict node -> bool
    replication_factor,
    consistency_level,
    threads,              \* background replication threads started by put/delete
    last,                 \* the operation in progress, or the last completed
                          \* one: its arguments, its position, what it returned
    \* Blockchain
    chain_lock,           \* the thread inside "with self.lock", or NoThread
    pending_transactions, \* the pending pool, a list
    block_store,          \* storage: the block records written, by hash
    height_index,         \* storage: height -> hash
    balances,             \* the in-memory dict address -> balance
    stored_balances,      \* storage: address -> balance
    thread,               \* each calling thread's position and local variables
    accepted,             \* the blocks mine_pending_transactions has returned,
                          \* each with the thread it was returned to
    clock,                \* time.time(), counted in block constructions
    difficulty,           \* Blockchain.difficulty
    added,                \* the transactions add_transaction returned True for,
                          \* one entry per such call, in the order of the calls
    audit,                \* a caller inspecting the chain: the list it got from
                          \* the chain property, a block it mined on its own
    engine,               \* the local engine of the StorageManager
    \* TransactionPool
    tx_pool,              \* pending_transactions, transaction_map, and what the
                          \* last call returned
    \* MerkleTree
    merkle                \* a tree, and the last proof asked of it and checked

dsVars == <<local_storage, peer_nodes, node_health, replication_factor,
            consistency_level, threads, last>>

chainVars == <<chain_lock, pending_transactions, block_store, height_index,
               balances, stored_balances, thread, accepted, clock, difficulty,
               added, audit>>

toolVars == <<tx_pool, merkle>>

vars == <<dsVars, chainVars, engine, toolVars>>

\* ---------------------------------------------------------------- helpers
Min(a, b) == IF a < b THEN a ELSE b

\* A dict update d[k] = v on a dict modelled as a function on its key set.
DictSet(d, k, v) == (k :> v) @@ d

\* d.pop(k, None)
DictPop(d, k) == [x \in (DOMAIN d) \ {k} |-> d[x]]

\* self.node_health.get(node, False)
HealthGet(health, node) == IF node \in DOMAIN health THEN health[node] ELSE FALSE

\* The elements of a sequence.
Range(s) == {s[i] : i \in DOMAIN s}

\* The md5 digest of the key read as an integer: a fixed number per key.
_get_key_hash(key) == key * 5

_select_nodes_for_key_AnyPeer(key, peers, health, r) ==
    LET hash_int == _get_key_hash(key)
    IN  IF peers = <<>>
        THEN <<>>
        ELSE [i \in 1..(r - 1) |-> peers[((hash_int + (i - 1)) % Len(peers)) + 1]]

\* [node for node in peer_nodes if node_health.get(node, False)], then
\* replication_factor - 1 picks by (hash + i) % len(available).
_select_nodes_for_key(key, peers, health, r) ==
    LET available == SelectSeq(peers, LAMBDA n : HealthGet(health, n))
        hash_int == _get_key_hash(key)
    IN  IF available = <<>>
        THEN <<>>
        ELSE [i \in 1..(r - 1) |->
                available[((hash_int + (i - 1)) % Len(available)) + 1]]

\* One step of an operation: the node touched (Local or a peer) and how the
\* step ended.
Step(node, out) == [node |-> node, out |-> out]

\* requests.get(node/api/v1/storage/health): the flag becomes the probe's
\* answer; a probe that raises is caught and leaves the flag false.
_check_node_health(health, node, probe_ok) == DictSet(health, node, probe_ok)

\* ReplicateContact whose exception handler forgets the health flag.
ReplicateContact_KeepsFlag(node, out, st) ==
    LET probed == [st EXCEPT !.health = DictSet(@, node, out # "probe_fail"),
                             !.step = [node |-> node, out |-> out],
                             !.acked = IF out = "ack" THEN @ \cup {node} ELSE @,
                             !.failed = IF out = "ack" THEN @ ELSE @ \cup {node}]
    IN  [probed EXCEPT !.results = DictSet(@, node, out = "ack")]

\* One iteration of the loop of _replicate_to_peers on the node, ending in out.
\* st carries the results dict, the health dict, the step taken, the nodes that
\* acknowledged at some step, those that did not at some step, and whether an
\* exception left the loop.
ReplicateContact(node, out, st) ==
    LET probed == [st EXCEPT !.health = _check_node_health(@, node, out # "probe_fail"),
                             !.step = Step(node, out),
                             !.acked = IF out = "ack" THEN @ \cup {node} ELSE @,
                             !.failed = IF out = "ack" THEN @ ELSE @ \cup {node}]
    IN  IF out = "probe_fail"
        THEN [probed EXCEPT !.results = DictSet(@, node, FALSE)]
        ELSE IF out = "timeout"
        THEN \* except Exception: results[node] = False; node_health[node] = False
             [probed EXCEPT !.results = DictSet(@, node, FALSE),
                            !.health = DictSet(@, node, FALSE)]
        ELSE [probed EXCEPT !.results = DictSet(@, node, out = "ack")]

\* sum(1 for success in replication_results.values() if success)
successful_replications(results) == Cardinality({n \in DOMAIN results : results[n]})

\* required_success with the quorum one short: half the peers, not a majority.
required_success_Half(level, results) ==
    IF level = "strong" THEN Cardinality(DOMAIN results)
    ELSE IF level = "quorum" THEN Cardinality(DOMAIN results) \div 2
    ELSE 1

\* required_success with strong treated as quorum.
required_success_Majority(level, results) ==
    IF level \in {"strong", "quorum"} THEN (Cardinality(DOMAIN results) \div 2) + 1
    ELSE 1

\* The ack threshold of put and delete.
required_success(level, results) ==
    IF level = "strong" THEN Cardinality(DOMAIN results)
    ELSE IF level = "quorum" THEN (Cardinality(DOMAIN results) \div 2) + 1
    ELSE 1

\* return local_success and successful_replications >= required_success
WriteResult(level, local_success, results) ==
    /\ local_success
    /\ successful_replications(results) >= required_success(level, results)

\* The record of an operation: its arguments, the nodes selected for it, the
\* step it took last, the results dict, and its position (pc): in the
\* replication loop, in the read loop, or done (it has returned, or raised, and
\* released the lock).
OpRecord(op, key, value) ==
    [op |-> op, key |-> key, value |-> value, local_success |-> TRUE,
     sel |-> << >>, pos |-> 1, step |-> Step(Local, "none"), acked |-> {},
     failed |-> {}, results |-> << >>, result |-> TRUE, raised |-> FALSE, pc |-> "done"]

\* with self.lock: put, get and delete run one at a time.
LockFree == last.pc = "done"

\* The replication loop has no node left: put and delete compute their answer.
SettleWrite(rec) ==
    IF rec.pos > Len(rec.sel) \/ rec.raised
    THEN [rec EXCEPT !.pc = "done",
                     !.result = ~rec.raised /\ WriteResult(consistency_level,
                                                           rec.local_success,
                                                           rec.results)]
    ELSE rec

\* A background thread as put and delete start it: it has not selected yet.
NewThread(op, key) == [op |-> op, key |-> key, pc |-> "start", sel |-> << >>, pos |-> 1]

\* WriteOp that replicates in the call under every consistency level.
WriteOp_WaitsForPeers(op, key, value, local_success, stored) ==
    LET rec == [OpRecord(op, key, value) EXCEPT
                  !.local_success = local_success,
                  !.step = Step(Local, IF local_success THEN "local_ok"
                                                        ELSE "local_fail")]
    IN
    /\ LockFree
    /\ local_storage' = stored
    /\ threads' = threads
    /\ last' = SettleWrite([rec EXCEPT
                  !.pc = "replicate",
                  !.sel = _select_nodes_for_key(key, peer_nodes, node_health,
                                                replication_factor)])
    /\ UNCHANGED <<peer_nodes, node_health, replication_factor, consistency_level>>

\* The body shared by put and delete after the local step: local_success is
\* the local engine's answer and stored the local store after it.
WriteOp(op, key, value, local_success, stored) ==
    LET rec == [OpRecord(op, key, value) EXCEPT
                  !.local_success = local_success,
                  !.step = Step(Local, IF local_success THEN "local_ok"
                                                        ELSE "local_fail")]
    IN
    /\ LockFree
    /\ local_storage' = stored
    /\ IF consistency_level = "eventual"
       THEN /\ Len(threads) < MaxAsync
            /\ threads' = Append(threads, NewThread(op, key))
            /\ last' = [rec EXCEPT !.result = local_success]
       ELSE /\ threads' = threads
            /\ last' = SettleWrite([rec EXCEPT
                          !.pc = "replicate",
                          !.sel = _select_nodes_for_key(key, peer_nodes, node_health,
                                                        replication_factor)])
    /\ UNCHANGED <<peer_nodes, node_health, replication_factor, consistency_level>>

\* Put that replicates without having written locally.
Put_NoLocalWrite(key, value) ==
    \E local_success \in BOOLEAN :
        WriteOp("put", key, value, local_success, local_storage)

\* DistributedStorage.put up to the replication loop
Put(key, value) ==
    \E local_success \in BOOLEAN :
        WriteOp("put", key, value, local_success,
                IF local_success THEN [local_storage EXCEPT ![key] = value]
                                 ELSE local_storage)

\* DistributedStorage.delete up to the replication loop
Delete(key) ==
    \E local_success \in BOOLEAN :
        WriteOp("delete", key, None, local_success,
                IF local_success THEN [local_storage EXCEPT ![key] = None]
                                 ELSE local_storage)

\* One iteration of the loop of _replicate_to_peers inside put or delete; after
\* the last one the operation returns.
ReplicateStep ==
    /\ last.pc = "replicate"
    /\ \E out \in WriteOutcomes :
         LET st == ReplicateContact(last.sel[last.pos], out,
                      [results |-> last.results, health |-> node_health,
                       step |-> last.step, acked |-> last.acked,
                       failed |-> last.failed, raised |-> FALSE])
         IN  /\ node_health' = st.health
             /\ last' = SettleWrite([last EXCEPT !.pos = @ + 1,
                                                 !.results = st.results,
                                                 !.step = st.step,
                                                 !.acked = st.acked,
                                                 !.failed = st.failed,
                                                 !.raised = st.raised])
    /\ UNCHANGED <<local_storage, peer_nodes, replication_factor,
                   consistency_level, threads>>

\* One iteration of the loop of _read_from_peers. st.value is the value a peer
\* answered with, None while no peer has.
ReadContact(node, out, st) ==
    LET probed == [st EXCEPT !.health = _check_node_health(@, node, out.kind # "probe_fail"),
                             !.step = Step(node, out.kind)]
    IN  IF out.kind = "probe_fail"
        THEN probed
        ELSE IF out.kind = "timeout"
        THEN \* except Exception: node_health[node] = False
             [probed EXCEPT !.health = DictSet(@, node, FALSE)]
        ELSE IF out.kind = "hit"
        THEN [probed EXCEPT !.value = out.value]
        ELSE probed

\* The read loop has no node left and no peer answered: get returns None.
SettleRead(rec) ==
    IF rec.pos > Len(rec.sel) \/ rec.raised
    THEN [rec EXCEPT !.pc = "done", !.result = FALSE]
    ELSE rec

\* DistributedStorage.get up to the read loop
Get(key) ==
    LET value == local_storage[key]
        rec == OpRecord("get", key, None)
    IN
    /\ LockFree
    /\ IF value # None
       THEN last' = [rec EXCEPT !.value = value,
                                !.step = Step(Local, "local_hit")]
       ELSE IF peer_nodes # << >>
       THEN last' = SettleRead([rec EXCEPT
                       !.pc = "read",
                       !.step = Step(Local, "local_miss"),
                       !.sel = _select_nodes_for_key(key, peer_nodes, node_health,
                                                     replication_factor)])
       ELSE last' = [rec EXCEPT !.result = FALSE,
                                !.step = Step(Local, "local_miss")]
    /\ UNCHANGED <<local_storage, peer_nodes, node_health, replication_factor,
                   consistency_level, threads>>

\* ReadStep that returns the peer's value without writing it locally.
ReadStep_NoBackfill ==
    /\ last.pc = "read"
    /\ \E out \in ReadOutcomes :
         LET st == ReadContact(last.sel[last.pos], out,
                      [value |-> None, health |-> node_health,
                       step |-> last.step, raised |-> FALSE])
             rec == [last EXCEPT !.pos = @ + 1, !.step = st.step,
                                 !.raised = st.raised]
         IN  /\ node_health' = st.health
             /\ local_storage' = local_storage
             /\ IF st.value # None
                THEN last' = [rec EXCEPT !.pc = "done", !.value = st.value]
                ELSE last' = SettleRead(rec)
    /\ UNCHANGED <<peer_nodes, replication_factor, consistency_level, threads>>

\* One iteration of the loop of _read_from_peers inside get. On the first value
\* a peer answers with, get writes it to the local store (it does not look at
\* the local engine's answer) and returns it.
ReadStep ==
    /\ last.pc = "read"
    /\ \E out \in ReadOutcomes :
         LET st == ReadContact(last.sel[last.pos], out,
                      [value |-> None, health |-> node_health,
                       step |-> last.step, raised |-> FALSE])
             rec == [last EXCEPT !.pos = @ + 1, !.step = st.step,
                                 !.raised = st.raised]
         IN  /\ node_health' = st.health
             /\ IF st.value # None
                THEN \E put_ok \in BOOLEAN :
                       /\ local_storage' =
                            IF put_ok
                            THEN [local_storage EXCEPT ![last.key] = st.value]
                            ELSE local_storage
                       /\ last' = [rec EXCEPT
                            !.pc = "done", !.value = st.value,
                            !.local_success = put_ok]
                ELSE /\ local_storage' = local_storage
                     /\ last' = SettleRead(rec)
    /\ UNCHANGED <<peer_nodes, replication_factor, consistency_level, threads>>

\* threads without the i-th
DropThread(i) == [j \in 1..(Len(threads) - 1) |->
                    IF j < i THEN threads[j] ELSE threads[j + 1]]

\* A background thread enters _replicate_to_peers and selects its nodes. It
\* holds no lock: it reads the health dict as it is now.
AsyncSelect(i) ==
    /\ i \in DOMAIN threads
    /\ threads[i].pc = "start"
    /\ LET sel == _select_nodes_for_key(threads[i].key, peer_nodes, node_health,
                                        replication_factor)
       IN  threads' = IF sel = << >>
                      THEN DropThread(i)
                      ELSE [threads EXCEPT ![i].pc = "run", ![i].sel = sel]
    /\ UNCHANGED <<local_storage, peer_nodes, node_health, replication_factor,
                   consistency_level, last>>

\* A background thread runs one iteration of the loop of _replicate_to_peers.
AsyncContact(i) ==
    /\ i \in DOMAIN threads
    /\ threads[i].pc = "run"
    /\ \E out \in WriteOutcomes :
         LET t == threads[i]
             node == t.sel[t.pos]
             st == ReplicateContact(node, out,
                      [results |-> << >>, health |-> node_health,
                       step |-> Step(Local, "none"), acked |-> {},
                       failed |-> {}, raised |-> FALSE])
         IN  /\ node_health' = st.health
             /\ threads' = IF t.pos = Len(t.sel) \/ st.raised
                           THEN DropThread(i)
                           ELSE [threads EXCEPT ![i].pos = @ + 1]
    /\ UNCHANGED <<local_storage, peer_nodes, replication_factor,
                   consistency_level, last>>

\* DistributedStorage.add_peer_node
AddPeerNode(node) ==
    /\ node \notin Range(peer_nodes)
    /\ peer_nodes' = Append(peer_nodes, node)
    /\ \E probe_ok \in BOOLEAN :
         node_health' = _check_node_health(node_health, node, probe_ok)
    /\ UNCHANGED <<local_storage, replication_factor, consistency_level, threads,
                   last>>

\* DistributedStorage.remove_peer_node
RemovePeerNode(node) ==
    /\ node \in Range(peer_nodes)
    /\ peer_nodes' = SelectSeq(peer_nodes, LAMBDA n : n # node)
    /\ node_health' = DictPop(node_health, node)
    /\ UNCHANGED <<local_storage, replication_factor, consistency_level, threads,
                   last>>

\* DistributedStorage.get_cluster_status: probes every configured peer. It
\* takes no lock.
GetClusterStatus ==
    /\ peer_nodes # << >>
    /\ \E probes \in [Range(peer_nodes) -> BOOLEAN] :
         node_health' = [n \in DOMAIN node_health \cup Range(peer_nodes) |->
                            IF n \in Range(peer_nodes) THEN probes[n]
                            ELSE node_health[n]]
    /\ UNCHANGED <<local_storage, peer_nodes, replication_factor,
                   consistency_level, threads, last>>

\* DistributedStorage.__init__: peers, replication factor and consistency
\* level as configured; every peer starts flagged healthy.
InitStorage ==
    /\ peer_nodes \in {[i \in 1..n |-> i] : n \in 0..NumNodes}
    /\ \E requested \in 1..(NumNodes + 1) :
         replication_factor = Min(requested, Len(peer_nodes) + 1)
    /\ consistency_level \in ConsistencyLevels
    /\ node_health = [n \in Range(peer_nodes) |-> TRUE]
    /\ local_storage = [k \in Keys |-> None]
    /\ threads = << >>
    /\ last = OpRecord("init", None, None)

\* ------------------------------------------------------------- Blockchain
Threads == 1..NumThreads
NoThread == 0
Addresses == {"alice", "bob", "miner", "pool"}

\* Blockchain.__init__(mining_reward=50.0)
MiningReward == 50
\* The balance an account holds in a storage that was filled before the chain
\* was opened on it (import_blockchain_data stores the balances of the file).
InitialFunds == 3

\* The wallets' public keys, and CryptoUtils.public_key_to_address of each.
PublicKeys == {"key_alice", "key_bob"}
public_key_to_address(public_key) == IF public_key = "key_alice" THEN "alice" ELSE "bob"

\* Transaction.get_signing_data: sender, receiver, amount and fee of the
\* transaction (data and nonce are the same for all transactions here).
get_signing_data(tx) == <<tx.sender, tx.receiver, tx.amount, tx.fee>>

\* CryptoUtils.sign_data with the private key of the public key: the
\* signature is kept as what was signed and the key that signed it.
sign_data(data, public_key) == [over |-> data, by |-> public_key]

\* A signature string that no key made.
Forged == [over |-> << >>, by |-> "forged"]

\* The signature and public_key of a transaction that was not signed (two
\* empty strings).
NoSignature == [over |-> << >>, by |-> ""]
NoPublicKey == ""

\* CryptoUtils.verify_signature: True when the signature was made over the
\* data by the key; anything else (a malformed key or signature too) is False.
verify_signature(data, signature, public_key) ==
    /\ public_key \in PublicKeys
    /\ signature = sign_data(data, public_key)

\* The transaction objects the callers hold: a valid transfer between alice
\* and bob, amount and fee depending on the transaction.
Tx(i) == [id |-> i,
          sender |-> IF i % 2 = 1 THEN "alice" ELSE "bob",
          receiver |-> IF i % 2 = 1 THEN "bob" ELSE "alice",
          amount |-> i,
          fee |-> i % 2,
          signature |-> NoSignature,
          public_key |-> NoPublicKey]

\* Transaction objects add_transaction refuses whatever the balances are: a
\* zero amount, a negative amount, a negative fee, no sender, no receiver; and
\* one that asks for more than a funded account comes to hold.
RefusedTransactions ==
    {[Tx(1) EXCEPT !.id = NumTx + 1, !.amount = 0],
     [Tx(1) EXCEPT !.id = NumTx + 2, !.amount = 0 - 1],
     [Tx(1) EXCEPT !.id = NumTx + 3, !.fee = 0 - 1],
     [Tx(1) EXCEPT !.id = NumTx + 4, !.sender = ""],
     [Tx(1) EXCEPT !.id = NumTx + 5, !.receiver = ""],
     [Tx(1) EXCEPT !.id = NumTx + 6, !.amount = InitialFunds + MiningReward]}

\* The first transaction of demo_blockchain_core: 1000.0 from the account
\* "genesis" to a wallet.
GenesisTransfer == [Tx(1) EXCEPT !.id = NumTx + 7, !.sender = "genesis",
                                 !.receiver = "alice", !.amount = 1000, !.fee = 0]

\* The transaction objects handed to add_transaction.
Submitted == {Tx(i) : i \in 1..NumTx} \cup RefusedTransactions

\* The address a thread mines to: the node's own wallet in the auto-mining
\* loop (thread 1), the miner_address of the request in an API handler.
MinerAddress(t) == IF t = 1 THEN "miner" ELSE "pool"

RewardTx_PaysSender(address, now) == [id |-> 0 - now, sender |-> address, receiver |-> "",
                                      amount |-> MiningReward, fee |-> 0,
                                      signature |-> NoSignature,
                                      public_key |-> NoPublicKey]

\* Transaction(sender="", receiver=mining_reward_address, amount=mining_reward);
\* its identifier hashes the time it was made at.
RewardTx(address, now) == [id |-> 0 - now, sender |-> "", receiver |-> address,
                           amount |-> MiningReward, fee |-> 0,
                           signature |-> NoSignature, public_key |-> NoPublicKey]

\* previous_hash of the genesis block
ZeroHash == << >>

\* merkle_root of a block without transactions (MerkleTree.root is None)
EmptyRoot == << >>

\* MerkleTree._build_tree, one level up: an odd level repeats its last node,
\* then the nodes are digested two by two. The digest of a pair is kept as the
\* pair.
RECURSIVE MerklePairs(_, _)
MerklePairs(level, i) ==
    IF i > Len(level) THEN << >>
    ELSE <<(<<level[i], IF i + 1 <= Len(level) THEN level[i + 1] ELSE level[i]>>)>>
         \o MerklePairs(level, i + 2)

RECURSIVE MerkleUp(_)
MerkleUp(level) == IF Len(level) <= 1 THEN level ELSE MerkleUp(MerklePairs(level, 1))

\* MerkleTree(transaction_data).root or "": the leaves digest the transactions'
\* JSON (kept as the one-element tuple of the transaction).
MerkleRoot(transactions) ==
    IF transactions = << >> THEN EmptyRoot
    ELSE MerkleUp([i \in 1..Len(transactions) |-> <<transactions[i]>>])[1]

\* Block._calculate_hash: the digest of index, timestamp, merkle_root,
\* previous_hash, nonce and miner_address, kept as the tuple of what it digests
\* (no two different inputs share a digest). It reads the merkle_root field, not
\* the transactions; the chain leaves the block's miner address empty.
_calculate_hash(b) == <<b.index, b.timestamp, b.merkle_root, b.previous_hash, b.nonce>>

\* The number of "0" hex digits a digest starts with: a function of what was
\* digested, spread over 0..MaxDifficulty.
LeadingZeros(h) == (h[1] + h[2] + h[5]) % (MaxDifficulty + 1)

\* hash.startswith("0" * d)
MeetsTarget(h, d) == LeadingZeros(h) >= d

\* Block.__init__ sets self.difficulty = 4
BlockDifficulty == 4

\* Block(index, transactions, previous_hash): the merkle root of the
\* transactions, nonce 0, difficulty 4, and the hash of that.
NewBlock(index, transactions, previous_hash, now) ==
    LET b == [index |-> index, timestamp |-> now, transactions |-> transactions,
              previous_hash |-> previous_hash,
              merkle_root |-> MerkleRoot(transactions), nonce |-> 0,
              difficulty |-> BlockDifficulty, hash |-> << >>]
    IN  [b EXCEPT !.hash = _calculate_hash(b)]

\* The loop of _mine_block and of Block.mine_block: raise the nonce and
\* recompute the hash until the hash starts with d zeros.
RECURSIVE MineLoop(_, _)
MineLoop(b, d) ==
    IF MeetsTarget(b.hash, d) THEN b
    ELSE LET n == [b EXCEPT !.nonce = b.nonce + 1]
         IN  MineLoop([n EXCEPT !.hash = _calculate_hash(n)], d)

_mine_block_NoSearch(b, d) == b

\* Blockchain._mine_block: the search at the chain's difficulty; the block's
\* own difficulty field is left as it is.
_mine_block(b, d) == MineLoop(b, d)

\* Block.mine_block(difficulty): records the difficulty in the block, then
\* searches.
mine_block(b, d) == MineLoop([b EXCEPT !.difficulty = d], d)

\* Block.to_dict, as far as from_dict reads it back.
to_dict(b) == [index |-> b.index, timestamp |-> b.timestamp,
               transactions |-> b.transactions, previous_hash |-> b.previous_hash,
               merkle_root |-> b.merkle_root, nonce |-> b.nonce,
               difficulty |-> b.difficulty, hash |-> b.hash]

\* Block.from_dict: a new Block of index, transactions and previous_hash, then
\* timestamp, merkle_root, nonce, difficulty and hash as recorded.
from_dict(data) ==
    [NewBlock(data.index, data.transactions, data.previous_hash, 0)
        EXCEPT !.timestamp = data.timestamp, !.merkle_root = data.merkle_root,
               !.nonce = data.nonce, !.difficulty = data.difficulty,
               !.hash = data.hash]

\* _create_genesis_block: index 0, no transaction, previous hash "0", nonce 0.
GenesisBlock == NewBlock(0, << >>, ZeroHash, 0)

\* The local engines a StorageManager runs on.
Engines == {"sqlite", "leveldb"}

\* The heights LevelDBStorage.get_latest_block_height sees: the "height:" keys
\* come in key order, zero-padded, and scan stops after limit of them.
ScannedHeights ==
    {h \in DOMAIN height_index :
        Cardinality({g \in DOMAIN height_index : g < h}) < ScanLimit}

\* get_latest_block_height: -1 when no height is indexed; else on SQLite the
\* largest indexed height (SELECT MAX), on LevelDB the largest of the heights
\* scanned.
get_latest_block_height ==
    LET seen == IF engine = "leveldb" THEN ScannedHeights ELSE DOMAIN height_index
    IN  IF seen = {} THEN 0 - 1
        ELSE CHOOSE h \in seen : \A g \in seen : g <= h

\* get_block_by_height: the hash indexed at the height, then the Block read
\* back from the record of that hash; the empty set stands for None.
get_block_by_height(h) ==
    IF h \in DOMAIN height_index
    THEN {from_dict(data) : data \in {x \in block_store : x.hash = height_index[h]}}
    ELSE {}

\* get_latest_block
get_latest_block ==
    IF get_latest_block_height >= 0
    THEN get_block_by_height(get_latest_block_height)
    ELSE {}

\* storage_manager.get_balance: the stored balance, 0.0 for an unknown address
get_balance(address) ==
    IF address \in DOMAIN stored_balances THEN stored_balances[address] ELSE 0

\* Transaction.is_valid: amount, fee, sender and receiver; and, when the
\* transaction carries both a signature and a public key, the signature over
\* the signing data and the address of the key.
is_valid(tx) ==
    /\ tx.amount > 0 /\ tx.fee >= 0 /\ tx.sender # "" /\ tx.receiver # ""
    /\ (tx.signature # NoSignature /\ tx.public_key # NoPublicKey)
       => /\ verify_signature(get_signing_data(tx), tx.signature, tx.public_key)
          /\ public_key_to_address(tx.public_key) = tx.sender

\* Blockchain.validate_transaction
validate_transaction(tx) ==
    /\ is_valid(tx)
    /\ get_balance(tx.sender) >= tx.amount + tx.fee

\* Block.is_valid
Block_is_valid(b) ==
    /\ b.hash = _calculate_hash(b)
    /\ MeetsTarget(b.hash, b.difficulty)
    /\ \A i \in 1..Len(b.transactions) : is_valid(b.transactions[i])
    /\ MerkleRoot(b.transactions) = b.merkle_root

\* One transaction of _update_balances_from_block applied to the dict bal.
ApplyTx(bal, tx) ==
    LET debited == IF tx.sender # ""
                   THEN DictSet(bal, tx.sender,
                                (IF tx.sender \in DOMAIN bal THEN bal[tx.sender] ELSE 0)
                                  - tx.amount)
                   ELSE bal
    IN  DictSet(debited, tx.receiver,
                (IF tx.receiver \in DOMAIN debited THEN debited[tx.receiver] ELSE 0)
                  + tx.amount)

RECURSIVE ApplyTxs(_, _, _)
ApplyTxs(bal, txs, i) ==
    IF i > Len(txs) THEN bal ELSE ApplyTxs(ApplyTx(bal, txs[i]), txs, i + 1)

\* Blockchain._update_balances_from_block
_update_balances_from_block(bal, b) == ApplyTxs(bal, b.transactions, 1)

\* Blockchain.chain from height h on: the blocks read back by height, those
\* that cannot be read skipped.
RECURSIVE ChainFrom(_)
ChainFrom(h) ==
    IF h > get_latest_block_height THEN << >>
    ELSE (IF get_block_by_height(h) = {} THEN << >>
          ELSE <<CHOOSE b \in get_block_by_height(h) : TRUE>>) \o ChainFrom(h + 1)

\* The chain property: a new list of new Block objects at every access.
chain == ChainFrom(0)

\* One iteration of the loop of is_chain_valid, at height h: "invalid" where
\* the loop returns False; "raised" where current_block.calculate_hash() is
\* evaluated, Block having no attribute of that name (its method is
\* _calculate_hash); "ok" where the iteration would complete.
CheckHeight(h) ==
    LET current_block == get_block_by_height(h)
        previous_block == get_block_by_height(h - 1)
    IN  IF current_block = {} \/ previous_block = {} THEN "invalid"
        ELSE IF (CHOOSE b \in current_block : TRUE).previous_hash
                  # (CHOOSE b \in previous_block : TRUE).hash THEN "invalid"
        ELSE "raised"

\* Blockchain.is_chain_valid: True when every iteration completes; an
\* exception is caught and answered with False.
is_chain_valid == \A h \in 1..get_latest_block_height : CheckHeight(h) = "ok"

\* The transaction slot of a thread that holds none.
NoTx == [id |-> 0, sender |-> "", receiver |-> "", amount |-> 0, fee |-> 0,
         signature |-> NoSignature, public_key |-> NoPublicKey]

\* A thread outside every call.
Idle == [pc |-> "idle", tx |-> NoTx, block |-> GenesisBlock]

\* A StorageManager on a fresh database: no block, no height, no account.
NoStorage == [block_store |-> {}, height_index |-> << >>, stored_balances |-> << >>]

\* No caller is inspecting the chain.
NoAudit == [phase |-> "none", chain |-> << >>, valid |-> TRUE, block |-> GenesisBlock,
            imported |-> NoStorage, keep_blocks |-> 0, incoming |-> << >>,
            backup |-> NoStorage, content |-> NoStorage]

AcquireLock_NotExclusive(t) ==
    /\ chain_lock' = t

\* with self.lock: the lock is free (the chain's calls do not nest).
AcquireLock(t) ==
    /\ chain_lock = NoThread
    /\ chain_lock' = t

AddTransactionBegin_NoLock(t, tx) ==
    /\ thread[t].pc = "idle"
    /\ Len(pending_transactions) < MaxPending
    /\ chain_lock' = chain_lock
    /\ thread' = [thread EXCEPT ![t] = [Idle EXCEPT !.pc = "add", !.tx = tx]]
    /\ UNCHANGED <<pending_transactions, block_store, height_index, balances,
                   stored_balances, accepted, clock, difficulty, added, audit>>

\* Blockchain.add_transaction enters "with self.lock".
AddTransactionBegin(t, tx) ==
    /\ thread[t].pc = "idle"
    /\ Len(pending_transactions) < MaxPending
    /\ AcquireLock(t)
    /\ thread' = [thread EXCEPT ![t] = [Idle EXCEPT !.pc = "add", !.tx = tx]]
    /\ UNCHANGED <<pending_transactions, block_store, height_index, balances,
                   stored_balances, accepted, clock, difficulty, added, audit>>

AddTransaction_NoValidation(t) ==
    /\ thread[t].pc = "add"
    /\ pending_transactions' = Append(pending_transactions, thread[t].tx)
    /\ added' = Append(added, thread[t].tx.id)
    /\ thread' = [thread EXCEPT ![t] = Idle]
    /\ chain_lock' = IF chain_lock = t THEN NoThread ELSE chain_lock
    /\ UNCHANGED <<block_store, height_index, balances, stored_balances, accepted,
                   clock, difficulty, audit>>

\* Blockchain.add_transaction inside the lock: validate, append, return.
AddTransaction(t) ==
    /\ thread[t].pc = "add"
    /\ LET ok == validate_transaction(thread[t].tx)
       IN  /\ pending_transactions' =
                IF ok THEN Append(pending_transactions, thread[t].tx)
                ELSE pending_transactions
           /\ added' = IF ok THEN Append(added, thread[t].tx.id) ELSE added
    /\ thread' = [thread EXCEPT ![t] = Idle]
    /\ chain_lock' = IF chain_lock = t THEN NoThread ELSE chain_lock
    /\ UNCHANGED <<block_store, height_index, balances, stored_balances, accepted,
                   clock, difficulty, audit>>

\* Blockchain.mine_pending_transactions enters "with self.lock".
MineBegin(t) ==
    /\ thread[t].pc = "idle"
    /\ clock < MaxBlocks
    /\ AcquireLock(t)
    /\ thread' = [thread EXCEPT ![t] = [Idle EXCEPT !.pc = "mine"]]
    /\ UNCHANGED <<pending_transactions, block_store, height_index, balances,
                   stored_balances, accepted, clock, difficulty, added, audit>>

MineBuild_MinesEmptyPool(t) ==
    /\ thread[t].pc = "mine"
    /\ LET latest == get_latest_block
           previous_hash == IF latest # {} THEN (CHOOSE b \in latest : TRUE).hash
                            ELSE ZeroHash
           new_index == IF latest # {} THEN (CHOOSE b \in latest : TRUE).index + 1
                        ELSE 0
           transactions == Append(pending_transactions,
                                  RewardTx(MinerAddress(t), clock + 1))
           new_block == NewBlock(new_index, transactions, previous_hash, clock + 1)
       IN  /\ thread' = [thread EXCEPT ![t].pc = "store",
                                       ![t].block = _mine_block(new_block, difficulty)]
           /\ chain_lock' = chain_lock
           /\ clock' = clock + 1
    /\ UNCHANGED <<pending_transactions, block_store, height_index, balances,
                   stored_balances, accepted, difficulty, added, audit>>

\* mine_pending_transactions up to the proof of work: None on an empty pool;
\* else the block on top of the latest one, holding a copy of the pool and the
\* reward transaction, mined at the chain's difficulty.
MineBuild(t) ==
    /\ thread[t].pc = "mine"
    /\ IF pending_transactions = << >>
       THEN /\ thread' = [thread EXCEPT ![t] = Idle]
            /\ chain_lock' = IF chain_lock = t THEN NoThread ELSE chain_lock
            /\ clock' = clock
       ELSE LET latest == get_latest_block
                previous_hash == IF latest # {} THEN (CHOOSE b \in latest : TRUE).hash
                                 ELSE ZeroHash
                new_index == IF latest # {} THEN (CHOOSE b \in latest : TRUE).index + 1
                             ELSE 0
                transactions == Append(pending_transactions,
                                       RewardTx(MinerAddress(t), clock + 1))
                new_block == NewBlock(new_index, transactions, previous_hash, clock + 1)
            IN  /\ thread' = [thread EXCEPT ![t].pc = "store",
                                            ![t].block = _mine_block(new_block, difficulty)]
                /\ chain_lock' = chain_lock
                /\ clock' = clock + 1
    /\ UNCHANGED <<pending_transactions, block_store, height_index, balances,
                   stored_balances, accepted, difficulty, added, audit>>

\* What the two writes of store_block come to.
StoreOutcomes == {"ok", "block_failed", "index_failed"}

\* No row of store_balances is refused.
NoAddress == ""

\* The blocks table after a record is written under its hash.
StoreRecord(store, data) == {x \in store : x.hash # data.hash} \cup {data}

MineStore_IgnoresFailure(t, outcome) ==
    /\ thread[t].pc = "store"
    /\   LET b == thread[t].block
         IN  /\ block_store' = IF outcome = "block_failed" THEN block_store
                               ELSE StoreRecord(block_store, to_dict(b))
             /\ height_index' = IF outcome = "ok"
                                THEN DictSet(height_index, b.index, b.hash)
                                ELSE height_index
             /\ thread' = [thread EXCEPT ![t].pc = "commit"]
             /\ chain_lock' = chain_lock
    /\ UNCHANGED <<pending_transactions, balances, stored_balances, accepted, clock,
                   difficulty, added, audit>>

\* storage_manager.store_block inside mine_pending_transactions: the block
\* record, then the height index; a write that fails ends it with False, and
\* mine_pending_transactions returns None. The outcome is the storage's: both
\* writes done, the block record refused, or the height index refused.
MineStore(t, outcome) ==
    /\ thread[t].pc = "store"
    /\   LET b == thread[t].block
         IN  /\ block_store' = IF outcome = "block_failed" THEN block_store
                               ELSE StoreRecord(block_store, to_dict(b))
             /\ height_index' = IF outcome = "ok"
                                THEN DictSet(height_index, b.index, b.hash)
                                ELSE height_index
             /\ IF outcome = "ok"
                THEN /\ thread' = [thread EXCEPT ![t].pc = "commit"]
                     /\ chain_lock' = chain_lock
                ELSE /\ thread' = [thread EXCEPT ![t] = Idle]
                     /\ chain_lock' = IF chain_lock = t THEN NoThread ELSE chain_lock
    /\ UNCHANGED <<pending_transactions, balances, stored_balances, accepted, clock,
                   difficulty, added, audit>>

\* mine_pending_transactions after a stored block: update the balances, clear
\* the pool, save the state (store_balances writes every entry of the dict; the
\* row of the address failed, if the dict has it, is refused by the storage
\* and skipped), return the block.
MineCommit(t, failed) ==
    /\ thread[t].pc = "commit"
    /\ LET b == thread[t].block
           updated == _update_balances_from_block(balances, b)
           written == DOMAIN updated \ {failed}
       IN  /\ balances' = updated
           /\  stored_balances' =
                    [a \in DOMAIN stored_balances \cup written |->
                        IF a \in written THEN updated[a] ELSE stored_balances[a]]
           /\ accepted' = Append(accepted, [block |-> b, by |-> t])
    /\ pending_transactions' = << >>
    /\ thread' = [thread EXCEPT ![t] = Idle]
    /\ chain_lock' = IF chain_lock = t THEN NoThread ELSE chain_lock
    /\ UNCHANGED <<block_store, height_index, clock, difficulty, added, audit>>

\* Blockchain.adjust_difficulty: nothing on a chain of fewer than 2 blocks; else
\* one more when the last block came in under 5 seconds after the one before,
\* one less (not below 1) when it took over 20 seconds. The seconds between two
\* blocks are the callers' doing: any of the three cases.
AdjustDifficulty ==
    /\ chain_lock = NoThread
    /\ audit = NoAudit
    /\ Len(chain) >= 2
    /\ \E time_taken \in {"fast", "slow", "on_target"} :
         difficulty' = IF time_taken = "fast" /\ difficulty < MaxDifficulty
                       THEN difficulty + 1
                       ELSE IF time_taken = "slow"
                       THEN (IF difficulty - 1 > 1 THEN difficulty - 1 ELSE 1)
                       ELSE difficulty
    /\ UNCHANGED <<chain_lock, pending_transactions, block_store, height_index,
                   balances, stored_balances, thread, accepted, clock, added,
                   audit>>

\* The caller lets go of the list or block it holds.
DropAudit ==
    /\ audit # NoAudit
    /\ audit' = NoAudit
    /\ UNCHANGED <<chain_lock, pending_transactions, block_store, height_index,
                   balances, stored_balances, thread, accepted, clock, difficulty,
                   added>>

\* A caller takes blockchain.chain of a chain of three blocks and asks
\* is_chain_valid().
ReadChain ==
    /\ chain_lock = NoThread
    /\ audit = NoAudit
    /\ Len(chain) = 3
    /\ audit' = [NoAudit EXCEPT !.phase = "loaded", !.chain = chain,
                                !.valid = is_chain_valid]
    /\ UNCHANGED <<chain_lock, pending_transactions, block_store, height_index,
                   balances, stored_balances, thread, accepted, clock, difficulty,
                   added>>

\* The caller changes the amount of the first transaction of chain[1] in the
\* list it holds, leaving the block's hash as it is, and asks is_chain_valid().
TamperAmount ==
    /\ chain_lock = NoThread
    /\ audit.phase = "loaded"
    /\ Len(audit.chain) >= 2
    /\ audit' = [audit EXCEPT !.phase = "tampered",
                              !.chain[2].transactions[1].amount = @ + 1,
                              !.valid = is_chain_valid]
    /\ UNCHANGED <<chain_lock, pending_transactions, block_store, height_index,
                   balances, stored_balances, thread, accepted, clock, difficulty,
                   added>>

\* The caller puts the amount back, recomputes the block's hash, and asks
\* is_chain_valid().
RestoreAmount ==
    /\ chain_lock = NoThread
    /\ audit.phase = "tampered"
    /\ LET restored == [audit.chain[2] EXCEPT !.transactions[1].amount = @ - 1]
       IN  audit' = [audit EXCEPT !.phase = "restored",
                                  !.chain[2] = [restored EXCEPT
                                                  !.hash = _calculate_hash(restored)],
                                  !.valid = is_chain_valid]
    /\ UNCHANGED <<chain_lock, pending_transactions, block_store, height_index,
                   balances, stored_balances, thread, accepted, clock, difficulty,
                   added>>

\* A caller builds a block of its own and mines it with Block.mine_block(d).
MineBlock(d) ==
    /\ chain_lock = NoThread
    /\ audit = NoAudit
    /\ audit' = [NoAudit EXCEPT !.phase = "mined",
                                !.block = mine_block(NewBlock(1, << >>, ZeroHash, 0), d)]
    /\ UNCHANGED <<chain_lock, pending_transactions, block_store, height_index,
                   balances, stored_balances, thread, accepted, clock, difficulty,
                   added>>

\* Blockchain.close and a new Blockchain on the same storage: close saves the
\* balances the node holds; the new object has an empty pool, the difficulty of
\* the saved metadata, and the stored balances above 0 as its balances.
Reload ==
    /\ chain_lock = NoThread
    /\ LET saved == [a \in DOMAIN stored_balances \cup DOMAIN balances |->
                        IF a \in DOMAIN balances THEN balances[a]
                        ELSE stored_balances[a]]
       IN  /\ stored_balances' = saved
           /\ balances' = [a \in {x \in DOMAIN saved : saved[x] > 0} |-> saved[a]]
    /\ pending_transactions' = << >>
    /\ UNCHANGED <<chain_lock, block_store, height_index, thread, accepted, clock,
                   difficulty, added, audit>>

\* storage_manager.get_all_balances: the accounts whose balance is above 0.
get_all_balances ==
    [a \in {x \in DOMAIN stored_balances : stored_balances[x] > 0} |->
        stored_balances[a]]

\* export_blockchain_data, the blocks and balances of the file: the blocks
\* read by height from 0 to the latest height as dictionaries, and
\* get_all_balances(). The metadata go into the file as they are read.
export_blockchain_data ==
    [blocks |-> [i \in 1..Len(chain) |-> to_dict(chain[i])],
     balances |-> get_all_balances]

\* import_blockchain_data, the loop over the blocks of the file from the i-th
\* on: Block.from_dict, then store_block (the record under its hash, the
\* height index).
RECURSIVE ImportBlocks(_, _, _)
ImportBlocks(storage, blocks, i) ==
    IF i > Len(blocks) THEN storage
    ELSE LET block == from_dict(blocks[i])
         IN  ImportBlocks(
                [storage EXCEPT
                    !.block_store = StoreRecord(@, to_dict(block)),
                    !.height_index = DictSet(@, block.index, block.hash)],
                blocks, i + 1)

\* import_blockchain_data into a storage: the blocks, then store_balances of
\* the balances of the file.
import_blockchain_data(storage, import_data) ==
    LET with_blocks == ImportBlocks(storage, import_data.blocks, 1)
    IN  [with_blocks EXCEPT
            !.stored_balances =
                [a \in DOMAIN @ \cup DOMAIN import_data.balances |->
                    IF a \in DOMAIN import_data.balances
                    THEN import_data.balances[a] ELSE @[a]]]

\* The storage of the chain is exported to a file between two calls of the
\* chain, and the file is imported into a fresh storage.
ExportImport ==
    /\ chain_lock = NoThread
    /\ audit = NoAudit
    /\ audit' = [NoAudit EXCEPT
                    !.phase = "imported",
                    !.imported = import_blockchain_data(NoStorage,
                                                        export_blockchain_data)]
    /\ UNCHANGED <<chain_lock, pending_transactions, block_store, height_index,
                   balances, stored_balances, thread, accepted, clock, difficulty,
                   added>>

\* StorageManager.cleanup_old_data(keep_blocks), between two calls of the
\* chain: nothing when the latest height is not above keep_blocks; else on
\* SQLite the rows of the height index and of the blocks table below
\* latest_height - keep_blocks are deleted (block_height is the index of the
\* block's record), on LevelDB the "height:" keys below it.
CleanupOldData(keep_blocks) ==
    /\ chain_lock = NoThread
    /\ audit = NoAudit
    /\ LET latest_height == get_latest_block_height
           cleanup_height == latest_height - keep_blocks
       IN  IF latest_height <= keep_blocks
           THEN UNCHANGED <<block_store, height_index>>
           ELSE /\ height_index' =
                      [h \in {g \in DOMAIN height_index : g >= cleanup_height} |->
                          height_index[h]]
                /\ block_store' =
                      IF engine = "sqlite"
                      THEN {x \in block_store : x.index >= cleanup_height}
                      ELSE block_store
    /\ audit' = [NoAudit EXCEPT !.phase = "cleaned", !.keep_blocks = keep_blocks]
    /\ UNCHANGED <<chain_lock, pending_transactions, balances, stored_balances,
                   thread, accepted, clock, difficulty, added>>

\* ------------------------------------------------------ backup and restore
\* base64.b64encode(value).decode('utf-8') of a value or a serialized block,
\* and its inverse: the text in the backup file is not the bytes stored.
b64encode(value) == <<"b64", value>>
b64decode(text) == text[2]

\* value.decode('utf-8') of the text LevelDB keeps under "balance:" and
\* "height:", and the encode('utf-8') that restores it.
utf8decode(value) == <<"utf8", value>>
utf8encode(text) == text[2]

\* The key "blockchain:metadata" among the generic keys.
MetadataKey == CHOOSE k \in Keys : \A j \in Keys : k <= j

\* The generic keys the local engine holds a value for.
StoredKeys == {k \in Keys : local_storage[k] # None}

\* What the local engine holds in each namespace.
EngineContent ==
    [key_value       |-> [k \in StoredKeys |-> local_storage[k]],
     block_store     |-> block_store,
     height_index    |-> height_index,
     stored_balances |-> stored_balances]

\* backup_to_file of the engine in use: SQLite dumps every row of every table
\* and encodes the bytes columns (value, block_data) in base64; LevelDB walks
\* every key, decodes the values under "balance:" and "height:" as text and
\* encodes every other value in base64.
backup_to_file ==
    [key_value       |-> [k \in StoredKeys |-> b64encode(local_storage[k])],
     block_store     |-> {b64encode(x) : x \in block_store},
     height_index    |-> IF engine = "sqlite" THEN height_index
                         ELSE [h \in DOMAIN height_index |->
                                  utf8decode(height_index[h])],
     stored_balances |-> IF engine = "sqlite" THEN stored_balances
                         ELSE [a \in DOMAIN stored_balances |->
                                  utf8decode(stored_balances[a])]]

\* restore_from_file of the engine in use, as the content it leaves. SQLite
\* empties every table named in the file (DELETE FROM) and inserts the rows,
\* decoding the base64 columns. LevelDB decodes the items and writes them with
\* batch_put over what the engine holds: it deletes no key.
restore_from_file(file) ==
    IF engine = "sqlite"
    THEN [key_value       |-> [k \in DOMAIN file.key_value |->
                                  b64decode(file.key_value[k])],
          block_store     |-> {b64decode(x) : x \in file.block_store},
          height_index    |-> file.height_index,
          stored_balances |-> file.stored_balances]
    ELSE LET items == {b64decode(x) : x \in file.block_store}
         IN  [key_value       |-> [k \in DOMAIN file.key_value |->
                                      b64decode(file.key_value[k])]
                                  @@ [k \in StoredKeys |-> local_storage[k]],
              block_store     |-> {x \in block_store :
                                      \A y \in items : y.hash # x.hash}
                                  \cup items,
              height_index    |-> [h \in DOMAIN file.height_index |->
                                      utf8encode(file.height_index[h])]
                                  @@ height_index,
              stored_balances |-> [a \in DOMAIN file.stored_balances |->
                                      utf8encode(file.stored_balances[a])]
                                  @@ stored_balances]

\* local_storage.put(key, value) by a caller of the engine.
EnginePut(key, value) ==
    /\ local_storage' = [local_storage EXCEPT ![key] = value]
    /\ UNCHANGED <<peer_nodes, node_health, replication_factor, consistency_level,
                   threads, last>>
    /\ UNCHANGED chainVars

\* local_storage.delete(key) by a caller of the engine.
EngineDelete(key) ==
    /\ local_storage' = [local_storage EXCEPT ![key] = None]
    /\ UNCHANGED <<peer_nodes, node_health, replication_factor, consistency_level,
                   threads, last>>
    /\ UNCHANGED chainVars

\* StorageManager.store_block(block) on an engine that takes every write: the
\* serialized block under its hash, then its hash under its height.
StoreBlock(data) ==
    /\ block_store' = StoreRecord(block_store, data)
    /\ height_index' = DictSet(height_index, data.index, data.hash)
    /\ UNCHANGED <<chain_lock, pending_transactions, balances, stored_balances,
                   thread, accepted, clock, difficulty, added, audit>>
    /\ UNCHANGED dsVars

\* local_storage.store_account_balance(address, balance), the call
\* StorageManager.store_balances makes for each account.
StoreAccountBalance(address, balance) ==
    /\ stored_balances' = DictSet(stored_balances, address, balance)
    /\ UNCHANGED <<chain_lock, pending_transactions, block_store, height_index,
                   balances, thread, accepted, clock, difficulty, added, audit>>
    /\ UNCHANGED dsVars

\* The operator backs the engine up to a file; the file is kept with what the
\* engine held when it was written.
BackupToFile ==
    /\ audit = NoAudit
    /\ audit' = [NoAudit EXCEPT !.phase = "backed_up",
                                !.backup = backup_to_file,
                                !.content = EngineContent]
    /\ UNCHANGED <<chain_lock, pending_transactions, block_store, height_index,
                   balances, stored_balances, thread, accepted, clock, difficulty,
                   added>>
    /\ UNCHANGED dsVars

\* The operator restores the engine from the file written before.
RestoreFromFile ==
    /\ audit.phase = "backed_up"
    /\ LET restored == restore_from_file(audit.backup)
       IN  /\ local_storage' = [k \in Keys |->
                                   IF k \in DOMAIN restored.key_value
                                   THEN restored.key_value[k] ELSE None]
           /\ block_store' = restored.block_store
           /\ height_index' = restored.height_index
           /\ stored_balances' = restored.stored_balances
    /\ audit' = [audit EXCEPT !.phase = "restored"]
    /\ UNCHANGED <<chain_lock, pending_transactions, balances, thread, accepted,
                   clock, difficulty, added>>
    /\ UNCHANGED <<peer_nodes, node_health, replication_factor, consistency_level,
                   threads, last>>

\* The balances of a storage that was filled before the chain was opened.
FundedBalances == [a \in {"alice", "bob"} |-> InitialFunds]

\* The difficulty get_blockchain_metadata answers for a storage without
\* metadata, which _load_from_storage puts in place of the constructor's.
DefaultDifficulty == 4

\* The blocks a peer answers GET /blocks with when its chain has n blocks: the
\* genesis block, then blocks it mined itself, each holding a transfer and its
\* reward.
RECURSIVE PeerChain(_)
PeerChain(n) ==
    IF n <= 1 THEN <<to_dict(GenesisBlock)>>
    ELSE LET below == PeerChain(n - 1)
             block == _mine_block(
                        NewBlock(n - 1, <<Tx(1), RewardTx("pool", n - 1)>>,
                                 below[n - 1].hash, n - 1),
                        DefaultDifficulty)
         IN  Append(below, to_dict(block))

\* A peer's chain whose second block does not link to the first.
BrokenLink(blocks) == [blocks EXCEPT ![2].previous_hash = <<"f">>]

\* A peer's chain whose last block does not carry the hash of its content.
WrongHash(blocks) == [blocks EXCEPT ![Len(blocks)].nonce = @ + 1]

\* A peer's chain whose last block holds a transfer of amount 0.
InvalidTransfer(blocks) ==
    [blocks EXCEPT ![Len(blocks)].transactions[1].amount = 0]

\* What the peers of a node answer GET /blocks with.
IncomingChains ==
    {PeerChain(n) : n \in 1..(MaxBlocks + 1)}
        \cup {BrokenLink(PeerChain(n)) : n \in 2..(MaxBlocks + 1)}
        \cup {WrongHash(PeerChain(n)) : n \in 2..(MaxBlocks + 1)}
        \cup {InvalidTransfer(PeerChain(n)) : n \in 2..(MaxBlocks + 1)}

_update_blockchain_PartialMerge(local, new_chain_data) ==
    ImportBlocks(local, new_chain_data, 1)

\* P2PNode._update_blockchain: a Blockchain is constructed for the check, and
\* the assignment temp_blockchain.chain = [] raises AttributeError, chain being
\* a property without a setter; the exception is caught and reported, and the
\* node's chain and balances are what they were.
_update_blockchain(local, new_chain_data) == local

\* P2PNode.sync_blockchain with one peer that answers, between two calls of
\* the chain: a peer chain longer than the local one goes to
\* _update_blockchain.
SyncBlockchain(peer_blocks) ==
    /\ chain_lock = NoThread
    /\ audit = NoAudit
    /\ LET local == [block_store |-> block_store, height_index |-> height_index,
                     balances |-> balances]
           longest_chain == IF Len(peer_blocks) > Len(chain) THEN peer_blocks
                            ELSE << >>
           synced == IF longest_chain # << >>
                     THEN _update_blockchain(local, longest_chain)
                     ELSE local
       IN  /\ block_store' = synced.block_store
           /\ height_index' = synced.height_index
           /\ balances' = synced.balances
    /\ audit' = [NoAudit EXCEPT !.phase = "synced", !.incoming = peer_blocks]
    /\ UNCHANGED <<chain_lock, pending_transactions, stored_balances, thread,
                   accepted, clock, difficulty, added>>

\* Blockchain.__init__ on a storage that holds no block and no metadata: the
\* difficulty is the 4 that get_blockchain_metadata answers by default, the
\* balances are loaded from storage (those above 0), the genesis block is
\* created and stored. The storage is empty, or was filled with balances before.
InitChain ==
    /\ chain_lock = NoThread
    /\ pending_transactions = << >>
    /\ block_store = {to_dict(GenesisBlock)}
    /\ height_index = (0 :> GenesisBlock.hash)
    /\ stored_balances \in {<< >>, FundedBalances}
    /\ balances = [a \in {x \in DOMAIN stored_balances : stored_balances[x] > 0}
                     |-> stored_balances[a]]
    /\ thread = [t \in Threads |-> Idle]
    /\ accepted = << >>
    /\ clock = 0
    /\ difficulty = DefaultDifficulty
    /\ added = << >>
    /\ audit = NoAudit

\* The chain of the node the DistributedStorage instance belongs to, at rest.
ChainAtRest ==
    /\ chain_lock = NoThread
    /\ pending_transactions = << >>
    /\ block_store = {to_dict(GenesisBlock)}
    /\ height_index = (0 :> GenesisBlock.hash)
    /\ stored_balances = << >>
    /\ balances = << >>
    /\ thread = [t \in Threads |-> Idle]
    /\ accepted = << >>
    /\ clock = 0
    /\ difficulty = DefaultDifficulty
    /\ added = << >>
    /\ audit = NoAudit

\* The storage of the node the chain belongs to, with no peer and at rest.
StorageAtRest ==
    /\ peer_nodes = << >>
    /\ replication_factor = 1
    /\ consistency_level = "quorum"
    /\ node_health = << >>
    /\ local_storage = [k \in Keys |-> None]
    /\ threads = << >>
    /\ last = OpRecord("init", None, None)

\* -------------------------------------------------------- TransactionPool
\* The fees of the transactions offered to a pool, one transaction per entry.
PoolFees == <<5, 1, 9, 3, 5>>

\* The transaction objects offered to a pool: a valid unsigned transfer of
\* alice per fee.
PoolTx(i) == [Tx(1) EXCEPT !.id = 10 + i, !.fee = PoolFees[i]]

\* Transaction.sign_transaction with the private key of public_key.
sign_transaction(tx, public_key) ==
    [tx EXCEPT !.signature = sign_data(get_signing_data(tx), public_key),
               !.public_key = public_key]

\* Transactions that carry a signature: one signed by its sender; one signed
\* by another wallet; one whose amount was changed after signing; one with a
\* signature no key made beside the sender's key; one with such a signature
\* and no public key.
SignedTransactions ==
    {sign_transaction([PoolTx(1) EXCEPT !.id = 21], "key_alice"),
     sign_transaction([PoolTx(1) EXCEPT !.id = 22], "key_bob"),
     [sign_transaction([PoolTx(1) EXCEPT !.id = 23], "key_alice") EXCEPT !.amount = 7],
     [PoolTx(1) EXCEPT !.id = 24, !.signature = Forged, !.public_key = "key_alice"],
     [PoolTx(1) EXCEPT !.id = 25, !.signature = Forged]}

\* The transaction objects handed to TransactionPool.add_transaction.
Offered ==
    {PoolTx(i) : i \in 1..Len(PoolFees)} \cup RefusedTransactions
        \cup SignedTransactions

\* What the last call on the pool was and returned.
NoReturn == [op |-> "none", tx |-> NoTx, max_count |-> 0, ok |-> FALSE,
             selected |-> << >>]

\* TransactionPool(max_size)
NewPool(max_size) == [pending_transactions |-> << >>, transaction_map |-> << >>,
                      max_size |-> max_size, returned |-> NoReturn]

\* list.sort(key=fee, reverse=True), one element at a time: the sort is
\* stable, an element goes behind those of an equal or higher fee.
RECURSIVE InsertByFee(_, _)
InsertByFee(sorted, tx) ==
    IF sorted = << >> THEN <<tx>>
    ELSE IF Head(sorted).fee >= tx.fee
         THEN <<Head(sorted)>> \o InsertByFee(Tail(sorted), tx)
         ELSE <<tx>> \o sorted

RECURSIVE SortedByFee(_, _, _)
SortedByFee(txs, i, sorted) ==
    IF i > Len(txs) THEN sorted
    ELSE SortedByFee(txs, i + 1, InsertByFee(sorted, txs[i]))

\* pending_transactions.sort(key=lambda tx: tx.fee, reverse=True)
SortByFee(txs) == SortedByFee(txs, 1, << >>)

\* The list without its k-th element.
RemoveAt(txs, k) == SubSeq(txs, 1, k - 1) \o SubSeq(txs, k + 1, Len(txs))

\* TransactionPool.remove_transaction: out of the map, and the mapped object
\* out of the list where the list has it.
remove_transaction(pool, transaction_id) ==
    IF transaction_id \in DOMAIN pool.transaction_map
    THEN LET transaction == pool.transaction_map[transaction_id]
             at == {k \in 1..Len(pool.pending_transactions) :
                       pool.pending_transactions[k] = transaction}
         IN  [pool EXCEPT
                !.transaction_map =
                    [i \in DOMAIN pool.transaction_map \ {transaction_id} |->
                        pool.transaction_map[i]],
                !.pending_transactions =
                    IF at = {} THEN @
                    ELSE RemoveAt(@, CHOOSE k \in at : \A j \in at : k <= j)]
    ELSE pool

\* min(pending_transactions, key=fee): the first of the lowest fee.
LowestFeeAt(txs) ==
    CHOOSE k \in 1..Len(txs) :
        /\ \A j \in 1..Len(txs) : txs[k].fee <= txs[j].fee
        /\ \A j \in 1..(k - 1) : txs[j].fee > txs[k].fee

_remove_lowest_fee_transaction_Highest(pool) ==
    IF pool.pending_transactions # << >>
    THEN remove_transaction(pool, pool.pending_transactions[1].id)
    ELSE pool

\* TransactionPool._remove_lowest_fee_transaction
_remove_lowest_fee_transaction(pool) ==
    IF pool.pending_transactions # << >>
    THEN remove_transaction(
            pool, pool.pending_transactions[LowestFeeAt(pool.pending_transactions)].id)
    ELSE pool

add_transaction_NoDedup(pool, transaction) ==
    IF ~is_valid(transaction)
    THEN pool
    ELSE LET room == IF Len(pool.pending_transactions) >= pool.max_size
                     THEN _remove_lowest_fee_transaction(pool) ELSE pool
         IN  [room EXCEPT
                !.pending_transactions = SortByFee(Append(@, transaction)),
                !.transaction_map = DictSet(@, transaction.id, transaction)]

\* TransactionPool.add_transaction, as far as the pool goes: nothing for an
\* invalid transaction or a known identifier; else room is made at capacity,
\* the transaction is appended and mapped, and the list is sorted.
add_transaction(pool, transaction) ==
    IF ~is_valid(transaction) \/ transaction.id \in DOMAIN pool.transaction_map
    THEN pool
    ELSE LET room == IF Len(pool.pending_transactions) >= pool.max_size
                     THEN _remove_lowest_fee_transaction(pool) ELSE pool
         IN  [room EXCEPT
                !.pending_transactions = SortByFee(Append(@, transaction)),
                !.transaction_map = DictSet(@, transaction.id, transaction)]

\* What TransactionPool.add_transaction returns.
Admits(pool, transaction) ==
    is_valid(transaction) /\ transaction.id \notin DOMAIN pool.transaction_map

get_transactions_for_block_KeepsMap(pool, max_count) ==
    [pool EXCEPT !.pending_transactions = SubSeq(@, max_count + 1, Len(@))]

\* TransactionPool.get_transactions_for_block for max_count >= 0, as far as
\* the pool goes: the selected transactions leave the map and the list.
get_transactions_for_block(pool, max_count) ==
    LET selected == SubSeq(pool.pending_transactions, 1,
                           Min(max_count, Len(pool.pending_transactions)))
    IN  [pool EXCEPT
           !.transaction_map =
               [i \in DOMAIN @ \ {selected[k].id : k \in 1..Len(selected)} |-> @[i]],
           !.pending_transactions = SubSeq(@, max_count + 1, Len(@))]

\* A caller offers a transaction to the pool.
PoolAdd(transaction) ==
    /\ tx_pool' = [add_transaction(tx_pool, transaction) EXCEPT
                     !.returned = [NoReturn EXCEPT
                                     !.op = "add", !.tx = transaction,
                                     !.ok = Admits(tx_pool, transaction)]]
    /\ UNCHANGED merkle

\* A miner takes the transactions of its next block out of the pool.
PoolSelect(max_count) ==
    /\ tx_pool' = [get_transactions_for_block(tx_pool, max_count) EXCEPT
                     !.returned =
                        [NoReturn EXCEPT
                            !.op = "get", !.max_count = max_count,
                            !.selected =
                                SubSeq(tx_pool.pending_transactions, 1,
                                       Min(max_count,
                                           Len(tx_pool.pending_transactions)))]]
    /\ UNCHANGED merkle

\* TransactionPool.clear
PoolClear ==
    /\ tx_pool' = [tx_pool EXCEPT !.pending_transactions = << >>,
                                  !.transaction_map = << >>,
                                  !.returned = [NoReturn EXCEPT !.op = "clear"]]
    /\ UNCHANGED merkle

\* No TransactionPool.
NoPool == NewPool(0)

\* ------------------------------------------------------------- MerkleTree
\* The transaction strings a MerkleTree is built over.
LeafData == {"a", "b"}

\* The lists a MerkleTree is built over, the empty one included.
LeafLists == UNION {[1..n -> LeafData] : n \in 0..MaxLeaves}

\* No MerkleTree.
NoMerkle == [transactions |-> << >>, index |-> 0, path |-> << >>,
             verified |-> FALSE, at |-> "none"]

\* MerkleTree._hash_data of one transaction string, kept as the one-element
\* tuple of the string; the digest of left + right is kept as the pair.
_hash_data(data) == <<data>>

\* MerkleTree._build_tree, the levels it keeps in tree_levels: each level is
\* copied when it is computed, before an odd level gets its last node
\* repeated.
RECURSIVE LevelsFrom(_)
LevelsFrom(level) ==
    IF Len(level) <= 1 THEN <<level>>
    ELSE <<level>> \o LevelsFrom(MerklePairs(level, 1))

\* MerkleTree.tree_levels after construction
tree_levels(transactions) ==
    IF transactions = << >> THEN << >>
    ELSE LevelsFrom([i \in 1..Len(transactions) |-> _hash_data(transactions[i])])

\* MerkleTree.get_merkle_path, from one level upwards; index counts from 0.
\* A sibling beyond the end of the kept level adds no step.
RECURSIVE PathFrom(_, _, _)
PathFrom(levels, level_idx, index) ==
    IF level_idx > Len(levels) - 1 THEN << >>
    ELSE LET current_level == levels[level_idx]
             sibling_index == IF index % 2 = 0 THEN index + 1 ELSE index - 1
             position == IF index % 2 = 0 THEN "right" ELSE "left"
         IN  (IF sibling_index < Len(current_level)
              THEN <<[hash |-> current_level[sibling_index + 1],
                      position |-> position]>>
              ELSE << >>)
             \o PathFrom(levels, level_idx + 1, index \div 2)

\* MerkleTree.get_merkle_path
get_merkle_path(transactions, transaction_index) ==
    IF transaction_index >= Len(transactions) THEN << >>
    ELSE PathFrom(tree_levels(transactions), 1, transaction_index)

\* MerkleTree.verify_transaction, the loop over the path.
RECURSIVE FoldPath(_, _, _)
FoldPath(current_hash, merkle_path, i) ==
    IF i > Len(merkle_path) THEN current_hash
    ELSE FoldPath(IF merkle_path[i].position = "right"
                  THEN <<current_hash, merkle_path[i].hash>>
                  ELSE <<merkle_path[i].hash, current_hash>>,
                  merkle_path, i + 1)

\* MerkleTree.verify_transaction: False for an empty path, else whether the
\* path leads from the transaction's digest to the root.
verify_transaction(transactions, transaction, merkle_path) ==
    IF merkle_path = << >> THEN FALSE
    ELSE FoldPath(_hash_data(transaction), merkle_path, 1) = MerkleRoot(transactions)

\* MerkleTree(transactions)
MerkleBuild(transactions) ==
    /\ merkle' = [NoMerkle EXCEPT !.transactions = transactions, !.at = "built"]
    /\ UNCHANGED tx_pool

\* tree.get_merkle_path(transaction_index), asked of a built tree.
MerklePath(transaction_index) ==
    /\ merkle.at # "none"
    /\ merkle' = [merkle EXCEPT
                    !.index = transaction_index,
                    !.path = get_merkle_path(merkle.transactions, transaction_index),
                    !.verified = FALSE,
                    !.at = "path"]
    /\ UNCHANGED tx_pool

\* tree.verify_transaction(transactions[index], index, path) with the path
\* just obtained for that index.
MerkleVerify ==
    /\ merkle.at = "path"
    /\ merkle.index < Len(merkle.transactions)
    /\ merkle' = [merkle EXCEPT
                    !.verified = verify_transaction(
                                    merkle.transactions,
                                    merkle.transactions[merkle.index + 1],
                                    merkle.path),
                    !.at = "verified"]
    /\ UNCHANGED tx_pool

\* The SQLite engine (the one in use where LevelDB cannot be loaded).
DefaultEngine == engine = "sqlite"

\* No TransactionPool in use, no MerkleTree built.
ToolsAtRest ==
    /\ tx_pool = NoPool
    /\ merkle = NoMerkle

Init == InitStorage /\ ChainAtRest /\ DefaultEngine /\ ToolsAtRest

\* One DistributedStorage instance over the peer list it was built with.
Next ==
    /\ \/ \E k \in Keys, v \in Values : Put(k, v)
       \/ \E k \in Keys : Get(k)
       \/ \E k \in Keys : Delete(k)
       \/ ReplicateStep
       \/ ReadStep
       \/ \E i \in 1..MaxAsync : AsyncSelect(i)
       \/ \E i \in 1..MaxAsync : AsyncContact(i)
       \/ GetClusterStatus
    /\ UNCHANGED <<chainVars, engine, toolVars>>

Spec == Init /\ [][Next]_vars

\* The cluster management calls of one DistributedStorage instance.
NextAdmin ==
    /\ \/ \E n \in Nodes : AddPeerNode(n)
       \/ \E n \in Nodes : RemovePeerNode(n)
       \/ GetClusterStatus
    /\ UNCHANGED <<chainVars, engine, toolVars>>

SpecAdmin == Init /\ [][NextAdmin]_vars

\* A node opened on a storage that holds no block.
InitNode == StorageAtRest /\ InitChain /\ DefaultEngine /\ ToolsAtRest

\* One Blockchain instance called from several threads (the API's request
\* handlers, the auto-mining loop).
NextChain ==
    /\ \/ \E t \in Threads, tx \in Submitted : AddTransactionBegin(t, tx)
       \/ \E t \in Threads : AddTransaction(t)
       \/ \E t \in Threads : MineBegin(t)
       \/ \E t \in Threads : MineBuild(t)
       \/ \E t \in Threads, outcome \in StoreOutcomes : MineStore(t, outcome)
       \/ \E t \in Threads, failed \in Addresses \cup {NoAddress} :
            MineCommit(t, failed)
    /\ UNCHANGED <<dsVars, engine, toolVars>>

SpecChain == InitNode /\ [][NextChain]_vars

\* One Blockchain instance on a storage that takes every write, and one
\* caller: it adds transactions and mines, adjusts the difficulty, mines blocks
\* of its own, and reads the chain back to validate it, one thing at a time.
NextAudit ==
    /\ \/ audit = NoAudit /\ \E i \in 1..NumTx : AddTransactionBegin(1, Tx(i))
       \/ AddTransaction(1)
       \/ audit = NoAudit /\ MineBegin(1)
       \/ MineBuild(1)
       \/ MineStore(1, "ok")
       \/ MineCommit(1, NoAddress)
       \/ AdjustDifficulty
       \/ ReadChain
       \/ TamperAmount
       \/ RestoreAmount
       \/ \E d \in 1..MaxDifficulty : MineBlock(d)
       \/ DropAudit
       \/ audit = NoAudit /\ pending_transactions = << >> /\ Reload
       \/ ExportImport
    /\ UNCHANGED <<dsVars, engine, toolVars>>

SpecAudit == InitNode /\ [][NextAudit]_vars

\* A node opened on a LevelDB storage that holds no block (the default
\* storage_config of Blockchain).
InitLevelDB == StorageAtRest /\ InitChain /\ engine = "leveldb" /\ ToolsAtRest

\* One Blockchain instance on a storage that takes every write, and one
\* caller that adds transactions and mines.
NextMiner ==
    /\ \/ \E i \in 1..NumTx : AddTransactionBegin(1, Tx(i))
       \/ AddTransaction(1)
       \/ MineBegin(1)
       \/ MineBuild(1)
       \/ MineStore(1, "ok")
       \/ MineCommit(1, NoAddress)
    /\ UNCHANGED <<dsVars, engine, toolVars>>

SpecLevelDB == InitLevelDB /\ [][NextMiner]_vars

\* A node opened on either local engine.
InitEngine == StorageAtRest /\ InitChain /\ engine \in Engines /\ ToolsAtRest

\* One Blockchain instance on a storage that takes every write, and one
\* caller that adds transactions, mines, and has the storage manager clean up
\* old blocks between two calls.
NextCleanup ==
    /\ \/ audit = NoAudit /\ \E i \in 1..NumTx : AddTransactionBegin(1, Tx(i))
       \/ AddTransaction(1)
       \/ audit = NoAudit /\ MineBegin(1)
       \/ MineBuild(1)
       \/ MineStore(1, "ok")
       \/ MineCommit(1, NoAddress)
       \/ \E keep_blocks \in 0..MaxBlocks : CleanupOldData(keep_blocks)
       \/ DropAudit
    /\ UNCHANGED <<dsVars, engine, toolVars>>

SpecCleanup == InitEngine /\ [][NextCleanup]_vars

\* A node opened on either engine whose callers write to the engine through
\* the storage manager (blocks a peer mined, an account's balance) and
\* directly (generic keys), and the operator who backs the engine up and
\* restores it at any point in between.
NextBackup ==
    /\ \/ \E k \in Keys, v \in Values : EnginePut(k, v)
       \/ \E k \in Keys : EngineDelete(k)
       \/ \E i \in 2..MaxBlocks : StoreBlock(PeerChain(MaxBlocks)[i])
       \/ \E v \in Values : StoreAccountBalance("alice", v)
       \/ BackupToFile
       \/ RestoreFromFile
       \/ DropAudit /\ UNCHANGED dsVars
    /\ UNCHANGED <<engine, toolVars>>

SpecBackup == InitEngine /\ [][NextBackup]_vars

\* A StorageManager of type 'distributed' and its one caller: store_block and
\* store_balances between two calls of the DistributedStorage instance, and
\* store_blockchain_metadata, which is self.storage.put("blockchain:metadata",
\* ...) with the replication that follows it.
NextManager ==
    \/ /\ LockFree
       /\ \/ \E i \in 2..MaxBlocks : StoreBlock(PeerChain(MaxBlocks)[i])
          \/ \E v \in Values : StoreAccountBalance("alice", v)
       /\ UNCHANGED <<engine, toolVars>>
    \/ /\ \/ \E v \in Values : Put(MetadataKey, v)
          \/ ReplicateStep
          \/ \E i \in 1..MaxAsync : AsyncSelect(i)
          \/ \E i \in 1..MaxAsync : AsyncContact(i)
       /\ UNCHANGED <<chainVars, engine, toolVars>>

SpecManager == Init /\ [][NextManager]_vars

\* One Blockchain instance on a storage that takes every write, its caller
\* that adds transactions and mines, and the P2PNode that syncs the chain with
\* a peer between two calls.
NextSync ==
    /\ \/ audit = NoAudit /\ \E i \in 1..NumTx : AddTransactionBegin(1, Tx(i))
       \/ AddTransaction(1)
       \/ audit = NoAudit /\ MineBegin(1)
       \/ MineBuild(1)
       \/ MineStore(1, "ok")
       \/ MineCommit(1, NoAddress)
       \/ \E peer_blocks \in IncomingChains : SyncBlockchain(peer_blocks)
       \/ DropAudit
    /\ UNCHANGED <<dsVars, engine, toolVars>>

SpecSync == InitNode /\ [][NextSync]_vars

\* One Blockchain instance on a storage that takes every write, and the
\* caller of demo_blockchain_core: it submits the transfer from "genesis" or a
\* transfer between wallets, and mines.
NextDemo ==
    /\ \/ \E tx \in {Tx(i) : i \in 1..NumTx} \cup {GenesisTransfer} :
            AddTransactionBegin(1, tx)
       \/ AddTransaction(1)
       \/ MineBegin(1)
       \/ MineBuild(1)
       \/ MineStore(1, "ok")
       \/ MineCommit(1, NoAddress)
    /\ UNCHANGED <<dsVars, engine, toolVars>>

\* A TransactionPool of some capacity, beside a node at rest.
InitPool ==
    /\ InitStorage /\ ChainAtRest /\ DefaultEngine
    /\ tx_pool \in {NewPool(max_size) : max_size \in 1..MaxPoolSize}
    /\ merkle = NoMerkle

\* One TransactionPool and its callers, one call at a time.
NextPool ==
    /\ \/ \E transaction \in Offered : PoolAdd(transaction)
       \/ \E max_count \in 0..(MaxPoolSize + 1) : PoolSelect(max_count)
       \/ PoolClear
    /\ UNCHANGED <<dsVars, chainVars, engine>>

SpecPool == InitPool /\ [][NextPool]_vars

\* A caller of MerkleTree beside a node at rest: it builds a tree, asks for the
\* path of an index, and verifies the transaction of that index with it.
NextMerkle ==
    /\ \/ \E transactions \in LeafLists : MerkleBuild(transactions)
       \/ \E transaction_index \in 0..MaxLeaves : MerklePath(transaction_index)
       \/ MerkleVerify
    /\ UNCHANGED <<dsVars, chainVars, engine>>

SpecMerkle == Init /\ [][NextMerkle]_vars

\* The demo runs to its end: a call that can be made is made, and a call
\* that was entered returns.
SpecDemo == InitNode /\ [][NextDemo]_vars /\ WF_vars(NextDemo)

\* ------------------------------------------------------------------ claims
\* The operation has returned.
Done == last.pc = "done"

\* The last operation is a put or a delete.
IsWrite == last.op \in {"put", "delete"}

\* The distinct peers selected for the last operation's key.
Selected == Range(last.sel)

\* The selected peers whose last contact in the call acknowledged.
LastAcked == {n \in Selected : n \in DOMAIN last.results /\ last.results[n]}

C2_TwoPeersOneAck ==
    (Done /\ last.op = "put" /\ consistency_level = "quorum"
          /\ Len(peer_nodes) = 2 /\ last.local_success)
        => /\ (last.acked # {} /\ last.failed # {} /\ last.acked \cap last.failed = {})
                => last.result
           /\ (last.acked = {}) => ~last.result

\* C3 (as amended): under strong, put and delete report success only if the
\* local write succeeded and every selected peer acknowledged on its last
\* contact in the call; a selected peer whose last contact errored, timed out
\* or failed its probe makes the call report failure.
C3_StrongAllAck ==
    (Done /\ IsWrite /\ consistency_level = "strong")
        => /\ last.result => (last.local_success /\ LastAcked = Selected)
           /\ (LastAcked # Selected) => ~last.result

\* C3 witness: a strong put over at least two selected peers, the local write
\* done, that failed because exactly one selected peer did not acknowledge.
C3_Witness ==
    /\ Done /\ last.op = "put" /\ consistency_level = "strong"
    /\ last.local_success /\ ~last.result
    /\ Cardinality(Selected) >= 2
    /\ Cardinality(LastAcked) = Cardinality(Selected) - 1

\* C3 as stated: under strong, put and delete report success only if the local
\* write succeeded and every selected peer acknowledged; one selected peer that
\* errors, times out or fails its probe (at any contact) makes the call fail.
C3_Original ==
    (Done /\ IsWrite /\ consistency_level = "strong")
        => /\ last.result => (last.local_success /\ LastAcked = Selected)
           /\ (last.failed # {}) => ~last.result

\* C4: under eventual, put returns the local write's outcome alone, whatever
\* the peers do: the call contacts no peer and replication is left to a
\* background thread.
C4_EventualLocalOnly ==
    (last.op = "put" /\ consistency_level = "eventual")
        => /\ Done
           /\ last.result = last.local_success
           /\ last.sel = << >>
           /\ last.acked \cup last.failed = {}
           /\ last.step.node = Local

\* C4 witness: an eventual put has returned success and the background thread
\* replicating its key has since contacted a peer.
C4_Witness ==
    /\ Done /\ last.op = "put" /\ consistency_level = "eventual" /\ last.result
    /\ \E i \in DOMAIN threads :
         /\ threads[i].op = "put" /\ threads[i].key = last.key
         /\ threads[i].pc = "run" /\ threads[i].pos > 1

\* C5: under every consistency level the value a put wrote locally is in the
\* local store while its peers are contacted and after it returned, also when
\* it reports failure for want of acknowledgements.
C5_LocalWriteFirst ==
    (last.op = "put" /\ last.local_success)
        => local_storage[last.key] = last.value

\* C5 witness: a put whose local write succeeded reported failure because a
\* selected peer did not acknowledge, and the value is in the local store.
C5_Witness ==
    /\ Done /\ last.op = "put" /\ last.local_success /\ ~last.result
    /\ last.failed # {}
    /\ local_storage[last.key] = last.value

\* The ack threshold of the last put or delete was not met.
ThresholdUnmet ==
    IF consistency_level = "strong"
    THEN \E n \in Selected : n \notin LastAcked
    ELSE Cardinality(LastAcked) < (Cardinality(Selected) \div 2) + 1

\* A step of put, get or delete in which the contacted peer was unreachable,
\* timed out or raised.
ContactFailed ==
    /\ last.pc \in {"replicate", "read"}
    /\ last'.pos = last.pos + 1
    /\ last'.step.out \in {"probe_fail", "timeout"}

RoutedPeers(key) ==
    Range(_select_nodes_for_key(key, peer_nodes,
                                [n \in Range(peer_nodes) |-> TRUE],
                                replication_factor))

\* The last operation is one that goes to the peers: a put or delete that
\* replicates in the call, or a get that missed locally.
GoesToPeers ==
    \/ IsWrite /\ consistency_level # "eventual"
    \/ last.op = "get" /\ last.pc = "read"
    \/ last.op = "get" /\ Done /\ last.value = None /\ peer_nodes # << >>
    \/ last.op = "get" /\ Done /\ last.step.node # Local

\* C7 as stated: every put, get and delete re-probes: a peer the key is routed
\* to is among the peers the operation probes, also when an earlier probe of
\* it failed.
C7_EveryOperationReprobes ==
    GoesToPeers => \A n \in RoutedPeers(last.key) : n \in Selected

\* The step is a get of the key.
IsGetOf(key) ==
    /\ LockFree
    /\ last'.op = "get" /\ last'.key = key
    /\ last'.pos = 1 /\ last'.step.node = Local

\* The last operation is a get that a peer answered.
PeerHit == Done /\ last.op = "get" /\ last.step.node # Local /\ last.value # None

C9_ReplicationFactorBound ==
    replication_factor <= Len(peer_nodes) + 1


\* C10: the blocks returned by mine_pending_transactions calls on different
\* threads are at different heights, and each of them at a height h >= 1 has
\* as previous_hash the hash of the block accepted at height h - 1 (the genesis
\* block at height 0).
AcceptedBlocks == {GenesisBlock} \cup {accepted[i].block : i \in 1..Len(accepted)}

Indexed(b) ==
    /\ to_dict(b) \in block_store
    /\ b.index \in DOMAIN height_index
    /\ height_index[b.index] = b.hash

\* How many entries of the sequence of transactions txs carry the identifier.
RECURSIVE CountId(_, _, _)
CountId(txs, id, i) ==
    IF i > Len(txs) THEN 0
    ELSE (IF txs[i].id = id THEN 1 ELSE 0) + CountId(txs, id, i + 1)

RECURSIVE CountAccepted(_, _)
CountAccepted(id, k) ==
    IF k > Len(accepted) THEN 0
    ELSE CountId(accepted[k].block.transactions, id, 1) + CountAccepted(id, k + 1)

TimesAdded(id) == Cardinality({j \in 1..Len(added) : added[j] = id})

\* C11: under every interleaving of add_transaction and
\* mine_pending_transactions from different threads, every transaction that
\* add_transaction answered True for is in the pending pool or in an accepted
\* block, as many times as it was added; none is dropped.
C11_NoAddedTransactionDropped ==
    \A id \in {tx.id : tx \in Submitted} :
        TimesAdded(id) <= CountId(pending_transactions, id, 1) + CountAccepted(id, 1)

\* Two threads took part: one added transaction went into an accepted block
\* mined by a thread, another added since is waiting in the pool.
C11_Witness ==
    /\ Len(accepted) >= 1
    /\ Len(added) >= 2
    /\ CountAccepted(added[1], 1) >= 1
    /\ pending_transactions # << >>
    /\ \E t \in Threads : thread[t].pc = "add" /\ accepted[1].by # t

\* C12: mine_pending_transactions on an empty pool is a no-op: the call ends
\* without a block, and the height, the stored blocks and indices, the balances
\* (in memory and stored) and the pool are as before.
C12_EmptyPoolNoOp ==
    [][\A t \in Threads :
         (thread[t].pc = "mine" /\ pending_transactions = << >>
            /\ thread'[t] # thread[t])
         => /\ thread'[t] = Idle
            /\ UNCHANGED <<block_store, height_index, balances, stored_balances,
                           pending_transactions, accepted>>]_vars

\* A thread is inside mine_pending_transactions on an empty pool, on a node
\* that holds a mined block and balances.
C12_Witness ==
    \E t \in Threads :
        /\ thread[t].pc = "mine"
        /\ chain_lock = t
        /\ pending_transactions = << >>
        /\ Len(accepted) >= 1
        /\ get_latest_block_height >= 1
        /\ DOMAIN balances # {}

\* C13: on a non-empty pool the block built holds the pending transactions in
\* pool order, then one reward transaction (no sender, the miner's address as
\* receiver, mining_reward as amount) and no other; its index is the latest
\* height plus one and its previous_hash the latest block's hash.
C13_BlockBuilt ==
    [][\A t \in Threads :
         (thread[t].pc = "mine" /\ thread'[t].pc = "store")
         => LET b == thread'[t].block
                n == Len(pending_transactions)
            IN  /\ n >= 1
                /\ Len(b.transactions) = n + 1
                /\ SubSeq(b.transactions, 1, n) = pending_transactions
                /\ b.transactions[n + 1].sender = ""
                /\ b.transactions[n + 1].receiver = MinerAddress(t)
                /\ b.transactions[n + 1].amount = MiningReward
                /\ \A i \in 1..n : b.transactions[i].sender # ""
                /\ b.index = get_latest_block_height + 1
                /\ \E latest \in get_latest_block : b.previous_hash = latest.hash]_vars

\* A thread has built the block of height 2 from a pool of two transactions.
C13_Witness ==
    \E t \in Threads :
        /\ thread[t].pc = "store"
        /\ thread[t].block.index = 2
        /\ Len(thread[t].block.transactions) = 3
        /\ Len(pending_transactions) = 2

\* C14: when the store_block call of mine_pending_transactions fails (the
\* block is not both recorded and indexed), the call ends there without a
\* block: the pool is not cleared, no balance is updated, the latest height is
\* as before.
C14_FailedStoreNoAdvance ==
    [][\A t \in Threads :
         (thread[t].pc = "store" /\ thread'[t] # thread[t]
            /\ DOMAIN height_index' = DOMAIN height_index)
         => /\ thread'[t] = Idle
            /\ UNCHANGED <<pending_transactions, balances, stored_balances,
                           accepted, height_index>>]_vars

\* The one block built so far was refused by the storage: the call is over,
\* no block was accepted, the transactions are still in the pool.
C14_Witness ==
    /\ clock = 1
    /\ \A t \in Threads : thread[t].pc \in {"idle", "add"}
    /\ accepted = << >>
    /\ get_latest_block_height = 0
    /\ pending_transactions # << >>

\* C15 (as claimed): between calls, whatever storage write failed, a block
\* record, its height-index entry and the balances resulting from it are
\* persisted together or not at all: every recorded block is indexed, and the
\* stored balances are those the node holds.
C15_AtomicPersistence ==
    (chain_lock = NoThread)
    => /\ \A data \in block_store : Indexed(from_dict(data))
       /\ \A a \in DOMAIN balances :
            a \in DOMAIN stored_balances /\ stored_balances[a] = balances[a]

\* The block's hash is the digest of its fields with its final nonce.
HashRecomputes(b) == b.hash = _calculate_hash(b)

\* C16: a block produced by mining with difficulty d (by the chain's
\* _mine_block at the chain's difficulty, by Block.mine_block(d) at d) has a
\* hash that starts with d zeros and that is the hash recomputed from the
\* block's final nonce; the genesis block, never mined, is held to no target.
C16_MinedHashMeetsTarget ==
    /\ \A t \in Threads :
         thread[t].pc \in {"store", "commit"}
         => /\ MeetsTarget(thread[t].block.hash, difficulty)
            /\ HashRecomputes(thread[t].block)
    /\ audit.phase = "mined"
       => /\ MeetsTarget(audit.block.hash, audit.block.difficulty)
          /\ HashRecomputes(audit.block)
    /\ HashRecomputes(GenesisBlock) /\ GenesisBlock.nonce = 0

\* The chain has just mined a block at a difficulty lowered from the default,
\* and the search had to raise the nonce; the genesis block meets no target.
C16_Witness ==
    /\ thread[1].pc = "store"
    /\ difficulty < DefaultDifficulty
    /\ thread[1].block.nonce > 0
    /\ ~MeetsTarget(GenesisBlock.hash, 1)

\* C17 (as claimed): every non-genesis block accepted by
\* mine_pending_transactions has a hash equal to the recomputed hash, a hash
\* that meets the difficulty recorded in the block, and a merkle_root equal to
\* a fresh Merkle build over its transactions.
C17_AcceptedBlocksValid ==
    \A k \in 1..Len(accepted) :
        LET b == accepted[k].block
        IN  /\ HashRecomputes(b)
            /\ MeetsTarget(b.hash, b.difficulty)
            /\ MerkleRoot(b.transactions) = b.merkle_root

\* What is_chain_valid is claimed to compute: at every height from 1 on, the
\* block's previous_hash is the stored hash of the block below and its stored
\* hash is its recomputed hash.
LinksAndHashesHold ==
    \A h \in 1..get_latest_block_height :
        /\ get_block_by_height(h) # {}
        /\ get_block_by_height(h - 1) # {}
        /\ \A b \in get_block_by_height(h) :
             /\ HashRecomputes(b)
             /\ \A p \in get_block_by_height(h - 1) : b.previous_hash = p.hash

\* C18 (as claimed): is_chain_valid answers True exactly when the links and
\* the hashes hold at every height from 1 on, and so for every chain built by
\* the genesis block and successful mine_pending_transactions calls.
C18_ChainValidExactly ==
    /\ is_chain_valid <=> LinksAndHashesHold
    /\ (\A k \in 1..Len(accepted) : Indexed(accepted[k].block)) => is_chain_valid

\* C19 (as claimed): on a chain of three blocks, after the amount of a
\* transaction of chain[1] is changed and the hash left alone, is_chain_valid
\* answers False; after the amount is put back and the hash recomputed, it
\* answers True again.
C19_TamperDetected ==
    /\ audit.phase = "tampered" => ~audit.valid
    /\ audit.phase = "restored" => audit.valid

\* C20: add_transaction either appends the given transaction to the end of
\* the pool and answers True, or leaves the pool as it is and answers False;
\* and it is the latter whenever the sender's balance is below amount + fee,
\* the amount is not positive, the fee is negative, or sender or receiver is
\* missing. Nothing else of the node changes.
C20_AddTransactionAllOrNothing ==
    [][\A t \in Threads :
         (thread[t].pc = "add" /\ thread'[t] # thread[t])
         => LET tx == thread[t].tx
            IN  /\ \/ /\ pending_transactions' = Append(pending_transactions, tx)
                      /\ added' = Append(added, tx.id)
                   \/ UNCHANGED <<pending_transactions, added>>
                /\ (get_balance(tx.sender) < tx.amount + tx.fee
                      \/ tx.amount <= 0 \/ tx.fee < 0
                      \/ tx.sender = "" \/ tx.receiver = "")
                   => UNCHANGED <<pending_transactions, added>>
                /\ thread'[t] = Idle
                /\ UNCHANGED <<block_store, height_index, balances,
                               stored_balances, accepted>>]_vars

\* A thread is inside add_transaction with a transaction that asks for more
\* than its sender holds, the sender holding funds and the pool holding a
\* transaction already.
C20_Witness ==
    \E t \in Threads :
        /\ thread[t].pc = "add"
        /\ get_balance(thread[t].tx.sender) > 0
        /\ get_balance(thread[t].tx.sender) < thread[t].tx.amount + thread[t].tx.fee
        /\ thread[t].tx.amount > 0
        /\ pending_transactions # << >>

\* C22 (as claimed): after any sequence of add_transaction and
\* mine_pending_transactions calls no address has a negative balance, in the
\* node's balances and in the stored ones, also when several pending
\* transactions of one sender are mined in one block.
C22_BalancesNonNegative ==
    /\ \A a \in DOMAIN balances : balances[a] >= 0
    /\ \A a \in DOMAIN stored_balances : stored_balances[a] >= 0

\* The amount transfers of the accepted blocks from the k-th on, replayed in
\* order over the balances bal.
RECURSIVE ReplayFrom(_, _)
ReplayFrom(bal, k) ==
    IF k > Len(accepted) THEN bal
    ELSE ReplayFrom(_update_balances_from_block(bal, accepted[k].block), k + 1)

\* The balance of the address after replaying every accepted block from the
\* genesis block on, over what the storage held when the chain was opened (a
\* chain with a mined block was opened on the funded storage: on an empty one
\* no transaction is admitted).
ReplayedBalance(a) ==
    LET bal == ReplayFrom(FundedBalances, 1)
    IN  IF a \in DOMAIN bal THEN bal[a] ELSE 0

\* C23 (as claimed): on every chain reached by mining, replaying the amount
\* transfers of every block from the genesis block on gives, for every address,
\* the balance get_balance answers, also after the chain object was closed and
\* opened again on its storage.
C23_ReplayIdempotence ==
    (Len(accepted) >= 1 /\ chain_lock = NoThread)
    => \A a \in Addresses : get_balance(a) = ReplayedBalance(a)

\* C24 (as claimed): the chain only appends: a write of the height index
\* (a successful store_block) raises the latest height by exactly one, and the
\* hash recorded for a height never changes afterwards, on either engine and
\* for chains of any length.
C24_AppendOnly ==
    [][/\ \A h \in DOMAIN height_index :
            h \in DOMAIN height_index' /\ height_index'[h] = height_index[h]
       /\ height_index' # height_index
          => get_latest_block_height' = get_latest_block_height + 1]_vars

\* C25 (as claimed): a freshly initialised chain (the genesis block only, an
\* empty balance store) leaves the genesis-only state: under the calls of
\* add_transaction and mine_pending_transactions (a transfer from the account
\* "genesis", then mining) its height comes to be at least 1.
C25_LeavesGenesisOnly ==
    (stored_balances = << >> /\ get_latest_block_height = 0)
    => <>(get_latest_block_height >= 1)

\* On a storage that holds no balance the pool stays empty and no block is
\* ever mined: no transaction is admitted, whoever its sender.
FreshChainStaysAtGenesis ==
    (stored_balances = << >>)
    => /\ get_latest_block_height = 0
       /\ pending_transactions = << >>
       /\ accepted = << >>

\* The last call on the pool was add_transaction and it changed the pool or
\* its answer.
PoolAdded == tx_pool' # tx_pool /\ tx_pool'.returned.op = "add"

\* The list is in descending order of fee.
FeeDescending(txs) ==
    \A i, j \in 1..Len(txs) : i < j => txs[i].fee >= txs[j].fee

\* The map holds exactly the transactions of the list, by identifier.
MapHoldsList(pool) ==
    /\ DOMAIN pool.transaction_map =
           {pool.pending_transactions[k].id : k \in 1..Len(pool.pending_transactions)}
    /\ \A k \in 1..Len(pool.pending_transactions) :
           pool.transaction_map[pool.pending_transactions[k].id] =
               pool.pending_transactions[k]

\* C21: a transaction that carries a signature is admitted only when the
\* signature verifies over its signing data under its public key and the
\* address derived from that key is its sender; one whose signature does not
\* verify is never admitted.
C21_SignedOnlyIfVerified ==
    \A k \in 1..Len(tx_pool.pending_transactions) :
        LET tx == tx_pool.pending_transactions[k]
        IN  tx.signature # NoSignature
            => /\ verify_signature(get_signing_data(tx), tx.signature, tx.public_key)
               /\ public_key_to_address(tx.public_key) = tx.sender

\* C26: add_transaction answers False and leaves list and map as they were
\* for an invalid transaction and for an identifier the pool already holds;
\* offering an admitted transaction again changes nothing.
C26_RejectsInvalidAndDuplicate ==
    [][PoolAdded
       => LET tx == tx_pool'.returned.tx
              again == add_transaction(tx_pool', tx)
          IN  /\ (~is_valid(tx) \/ tx.id \in DOMAIN tx_pool.transaction_map)
                 => /\ ~tx_pool'.returned.ok
                    /\ tx_pool'.pending_transactions = tx_pool.pending_transactions
                    /\ tx_pool'.transaction_map = tx_pool.transaction_map
              /\ tx_pool'.returned.ok
                 => /\ ~Admits(tx_pool', tx)
                    /\ again.pending_transactions = tx_pool'.pending_transactions
                    /\ again.transaction_map = tx_pool'.transaction_map]_vars

\* C26 witness: a valid transaction the pool holds was offered again and
\* refused.
C26_Witness ==
    /\ tx_pool.returned.op = "add"
    /\ ~tx_pool.returned.ok
    /\ is_valid(tx_pool.returned.tx)
    /\ tx_pool.returned.tx.id \in DOMAIN tx_pool.transaction_map
    /\ Len(tx_pool.pending_transactions) >= 2

\* C27: the pool never holds more than max_size transactions and its list is
\* in descending order of fee; an admission at capacity takes out exactly one
\* transaction, one of the lowest fee, and puts the new one in.
C27_BoundedFeeOrdered ==
    [][/\ Len(tx_pool'.pending_transactions) <= tx_pool'.max_size
       /\ FeeDescending(tx_pool'.pending_transactions)
       /\ (/\ PoolAdded
           /\ tx_pool'.returned.ok
           /\ Len(tx_pool.pending_transactions) = tx_pool.max_size)
          => \E k \in 1..Len(tx_pool.pending_transactions) :
                /\ \A j \in 1..Len(tx_pool.pending_transactions) :
                      tx_pool.pending_transactions[k].fee
                          <= tx_pool.pending_transactions[j].fee
                /\ tx_pool'.pending_transactions =
                      SortByFee(Append(RemoveAt(tx_pool.pending_transactions, k),
                                       tx_pool'.returned.tx))
                /\ MapHoldsList(tx_pool')]_vars

\* C27 witness: a pool of capacity 3 was offered the fees 5, 1, 9 and 3 and
\* holds 9, 5 and 3, the fee 1 evicted by the admission of the fee 3.
C27_Witness ==
    /\ tx_pool.max_size = 3
    /\ tx_pool.returned.op = "add"
    /\ tx_pool.returned.ok
    /\ tx_pool.returned.tx = PoolTx(4)
    /\ tx_pool.pending_transactions = <<PoolTx(3), PoolTx(1), PoolTx(4)>>
    /\ PoolTx(2).id \notin DOMAIN tx_pool.transaction_map

\* C28: get_transactions_for_block(max_count) returns the first
\* min(max_count, size) transactions of the list, which is the highest-fee
\* prefix, leaves the rest in order, and the map holds exactly the rest.
C28_SelectsHighestFeePrefix ==
    [][(tx_pool' # tx_pool /\ tx_pool'.returned.op = "get")
       => LET n == Min(tx_pool'.returned.max_count,
                       Len(tx_pool.pending_transactions))
          IN  /\ tx_pool'.returned.selected =
                     SubSeq(tx_pool.pending_transactions, 1, n)
              /\ tx_pool'.pending_transactions =
                     SubSeq(tx_pool.pending_transactions, n + 1,
                            Len(tx_pool.pending_transactions))
              /\ \A i \in 1..n : \A j \in (n + 1)..Len(tx_pool.pending_transactions) :
                     tx_pool.pending_transactions[i].fee
                         >= tx_pool.pending_transactions[j].fee
              /\ MapHoldsList(tx_pool')]_vars

\* C28 witness: two transactions were taken out of a pool of three, the fees
\* 9 and 5, and the fee 3 stays.
C28_Witness ==
    /\ tx_pool.returned.op = "get"
    /\ tx_pool.returned.max_count = 2
    /\ tx_pool.returned.selected = <<PoolTx(3), PoolTx(1)>>
    /\ tx_pool.pending_transactions = <<PoolTx(4)>>
    /\ DOMAIN tx_pool.transaction_map = {PoolTx(4).id}

\* C29: for every non-empty list and every index of it, the path
\* get_merkle_path gives for the index verifies the transaction of that index
\* against the tree's root.
C29_ProofRoundTrip ==
    merkle.at = "verified" => merkle.verified

\* The round trip holds where no level on the way up is odd at the index's
\* node: lists of two and of four transactions.
EvenLevelsRoundTrip ==
    (merkle.at = "verified" /\ Len(merkle.transactions) \in {2, 4})
    => merkle.verified

\* get_balance of the storage the file was imported into.
ImportedBalance(address) ==
    IF address \in DOMAIN audit.imported.stored_balances
    THEN audit.imported.stored_balances[address] ELSE 0

\* get_latest_block_height of the storage the file was imported into (SQLite).
ImportedHeight ==
    IF DOMAIN audit.imported.height_index = {} THEN 0 - 1
    ELSE CHOOSE h \in DOMAIN audit.imported.height_index :
            \A g \in DOMAIN audit.imported.height_index : g <= h

\* get_block_by_height of the storage the file was imported into.
ImportedBlock(h) ==
    IF h \in DOMAIN audit.imported.height_index
    THEN {from_dict(data) : data \in {x \in audit.imported.block_store :
                                        x.hash = audit.imported.height_index[h]}}
    ELSE {}

\* The import gives the fresh storage the height and the blocks of the
\* exported one.
ImportKeepsHeightAndBlocks ==
    audit.phase = "imported"
    => /\ ImportedHeight = get_latest_block_height
       /\ \A h \in 0..get_latest_block_height :
             ImportedBlock(h) = get_block_by_height(h) /\ ImportedBlock(h) # {}

\* C30: after export_blockchain_data and import_blockchain_data into a fresh
\* storage, get_balance of every address, the latest height and the block at
\* every height are those of the exported storage.
C30_ExportImportRoundTrip ==
    audit.phase = "imported"
    => /\ \A a \in Addresses : ImportedBalance(a) = get_balance(a)
       /\ ImportedHeight = get_latest_block_height
       /\ \A h \in 0..get_latest_block_height :
             ImportedBlock(h) = get_block_by_height(h)

\* C40: when a transaction is admitted to a full pool, no transaction of a
\* fee strictly above the admitted one's leaves the pool.
C40_EvictionKeepsFeeQuality ==
    [][(/\ PoolAdded
        /\ tx_pool'.returned.ok
        /\ Len(tx_pool.pending_transactions) = tx_pool.max_size)
       => \A k \in 1..Len(tx_pool.pending_transactions) :
             tx_pool.pending_transactions[k].id \notin DOMAIN tx_pool'.transaction_map
             => tx_pool.pending_transactions[k].fee <= tx_pool'.returned.tx.fee]_vars

\* C38: after any sequence of add_transaction and mine_pending_transactions
\* calls, the same transaction submitted more than once included, each
\* transaction identifier occurs at most once across the accepted blocks.
C38_NoDoubleConfirmation ==
    \A i \in 1..NumTx : CountAccepted(Tx(i).id, 1) <= 1

\* The in-memory balance of the address, 0 when the map has no entry.
MemoryBalance(a) == IF a \in DOMAIN balances THEN balances[a] ELSE 0

\* C39: between two calls of the chain (after every completed add_transaction,
\* mine_pending_transactions or reload), get_balance answers the in-memory
\* balance for every address.
C39_MemoryAgreesWithStorage ==
    chain_lock = NoThread
    => \A a \in Addresses : get_balance(a) = MemoryBalance(a)

\* The peers flagged healthy.
HealthyPeers == {n \in Range(peer_nodes) : HealthGet(node_health, n)}

\* C35: for every key, the replica list _select_nodes_for_key gives under the
\* current health map holds only peers flagged healthy, holds
\* replication_factor - 1 distinct peers when that many are healthy, fewer
\* distinct ones otherwise and none when no peer is healthy; and the list a
\* put or delete replicates to is that list for its key.
C35_RoutingHealthAware ==
    /\ [](\A k \in Keys :
            LET sel == _select_nodes_for_key(k, peer_nodes, node_health,
                                             replication_factor)
            IN  /\ Range(sel) \subseteq HealthyPeers
                /\ Cardinality(HealthyPeers) >= replication_factor - 1
                   => Cardinality(Range(sel)) = replication_factor - 1
                /\ Cardinality(HealthyPeers) < replication_factor - 1
                   => Cardinality(Range(sel)) < replication_factor - 1
                /\ HealthyPeers = {} => sel = << >>)
    /\ [][(/\ last.pc = "done" /\ last' # last
           /\ last'.op \in {"put", "delete"} /\ consistency_level # "eventual")
          => last'.sel = _select_nodes_for_key(last'.key, peer_nodes, node_health,
                                               replication_factor)]_vars

\* C35 witness: a put has just selected two distinct healthy peers out of
\* three, the third being flagged unhealthy.
C35_Witness ==
    /\ last.op = "put" /\ last.pc = "replicate" /\ last.pos = 1
    /\ replication_factor = 3
    /\ Cardinality(Selected) = 2
    /\ Selected = HealthyPeers
    /\ Cardinality(Range(peer_nodes)) = 3

\* C37: under strong consistency with a replication factor of at least 2, a
\* put that reports success was acknowledged by at least one peer.
C37_StrongNeedsPeerAck ==
    (/\ Done /\ last.op = "put" /\ consistency_level = "strong"
     /\ replication_factor >= 2 /\ last.result)
    => LastAcked # {}

\* The rows cleanup_old_data(keep_blocks) is to delete: the heights strictly
\* below latest_height - keep_blocks.
BelowCut(h) == h < get_latest_block_height - audit'.keep_blocks

\* The effect of cleanup_old_data as claimed, on the step of the call.
CleanupExact ==
    /\ DOMAIN height_index' = {h \in DOMAIN height_index : ~BelowCut(h)}
    /\ \A h \in DOMAIN height_index' : height_index'[h] = height_index[h]
    /\ block_store' = {x \in block_store : ~BelowCut(x.index)}
    /\ UNCHANGED <<balances, stored_balances>>

\* C32: cleanup_old_data(keep_blocks) deletes the height-index entries and the
\* block rows of exactly the heights strictly below latest_height - keep_blocks
\* on either engine, nothing when latest_height <= keep_blocks, and changes no
\* balance.
C32_CleanupExact ==
    [][(audit.phase = "none" /\ audit'.phase = "cleaned") => CleanupExact]_vars

\* On SQLite cleanup_old_data has the claimed effect.
CleanupExactOnSQLite ==
    [][(audit.phase = "none" /\ audit'.phase = "cleaned" /\ engine = "sqlite")
       => CleanupExact]_vars

\* A chain received from a peer passes the checks of hash, linkage and
\* transaction validity (a reward names no sender and is not held to that).
ChainDataValid(blocks) ==
    \A k \in 1..Len(blocks) :
        LET b == from_dict(blocks[k])
        IN  /\ HashRecomputes(b)
            /\ k > 1 => b.previous_hash = blocks[k - 1].hash
            /\ \A i \in 1..Len(b.transactions) :
                  b.transactions[i].sender # "" => is_valid(b.transactions[i])

\* sync_blockchain has just run on the chain received.
Synced == audit.phase = "none" /\ audit'.phase = "synced"

\* C33: a sync attempt with an incoming chain in which a block fails hash,
\* linkage or transaction validity leaves every height-to-block mapping and
\* the balances exactly as they were.
C33_InvalidChainDiscarded ==
    [][(Synced /\ ~ChainDataValid(audit'.incoming))
       => UNCHANGED <<block_store, height_index, balances, stored_balances>>]_vars

\* C33 witness: the node has mined a block of its own and a sync received a
\* longer chain with a broken link.
C33_Witness ==
    /\ audit.phase = "synced"
    /\ ~ChainDataValid(audit.incoming)
    /\ Len(chain) = 2
    /\ Len(audit.incoming) > Len(chain)
    /\ Len(accepted) = 1

\* C34: after sync_blockchain found a peer whose chain is valid and strictly
\* longer than the local one, the local chain is as long as the peer's.
C34_LongestValidChainWins ==
    [][(Synced /\ ChainDataValid(audit'.incoming)
               /\ Len(audit'.incoming) > Len(chain))
       => Len(chain') = Len(audit'.incoming)]_vars



\* The engine holds, in the action's next state, what it held when the
\* backup was written.
RestoredExactly == EngineContent' = audit.content

\* C31: a restore from a backup file leaves the local engine, SQLite or
\* LevelDB, with exactly the content it held when the backup was written, in
\* every namespace, whatever was written or deleted in between.
C31_BackupRestoreRoundTrip ==
    [][(audit.phase = "backed_up" /\ audit'.phase = "restored") => RestoredExactly]_vars

\* On SQLite the round trip is exact.
RoundTripOnSQLite ==
    [][(engine = "sqlite" /\ audit.phase = "backed_up" /\ audit'.phase = "restored")
          => RestoredExactly]_vars


\* The storage is one that replicates in the call and has a healthy peer to
\* replicate to.
ReplicatesToPeers ==
    /\ consistency_level \in {"strong", "quorum"}
    /\ replication_factor >= 2
    /\ HealthyPeers # {}

\* The step is an operation of the DistributedStorage instance that selected
\* peers for its key.
ThroughDistributedStorage == last' # last /\ last'.sel # << >>

\* C36: on a manager of type 'distributed', a block, block index or balance
\* written by the storage manager under strong or quorum consistency with a
\* healthy peer is written through the DistributedStorage instance, which
\* selects peers for it, and not to the local engine alone.
C36_BlocksThroughDistributedStorage ==
    [][(ReplicatesToPeers /\ <<block_store, height_index, stored_balances>>' #
                             <<block_store, height_index, stored_balances>>)
          => ThroughDistributedStorage]_vars

\* The metadata, written with self.storage.put, does go through it.
MetadataThroughDistributedStorage ==
    [][(ReplicatesToPeers /\ local_storage' # local_storage)
          => ThroughDistributedStorage]_vars

====
